---- MODULE Spec2Model ----
(***************************************************************************)
(* The in-memory trace and evaluation store of phoenix.core.project:       *)
(* Project, _Spans, _Evals and ReadableSpan.                               *)
(*                                                                         *)
(* A Python dict is a function whose DOMAIN is the set of keys present; a  *)
(* defaultdict creates a key only where the code subscripts it.  A span    *)
(* object is identified by its span_id: _add_span accepts at most one      *)
(* object per span_id, so the sets and sorted lists of span objects are    *)
(* sets and sequences of span ids, and the object itself (with its         *)
(* computed values) is the value of _spans at that id.                     *)
(***************************************************************************)
EXTENDS Integers, Sequences, FiniteSets, Bags, TLC

None == "None"

\* ------------------------------------------------------------- universes
SpanIDs == {"a", "b", "c"}
TraceIDs == {"t1", "t2"}

\* Largest ingested token count, largest wall-clock reading and largest start
\* time (seconds) explored.
MaxTokens == 1
MaxClock == 2
MaxTime == 1

\* ------------------------------------------------------------------ keys
LATENCY_MS == "__computed__.latency_ms"
ERROR_COUNT == "__computed__.error_count"
CUMULATIVE_LLM_TOKEN_COUNT_TOTAL == "__computed__.cumulative_token_count.total"
CUMULATIVE_LLM_TOKEN_COUNT_PROMPT == "__computed__.cumulative_token_count.prompt"
CUMULATIVE_LLM_TOKEN_COUNT_COMPLETION == "__computed__.cumulative_token_count.completion"
CUMULATIVE_ERROR_COUNT == "__computed__.cumulative_error_count"

LLM_TOKEN_COUNT_TOTAL == "attributes.llm.token_count.total"
LLM_TOKEN_COUNT_PROMPT == "attributes.llm.token_count.prompt"
LLM_TOKEN_COUNT_COMPLETION == "attributes.llm.token_count.completion"
RETRIEVAL_DOCUMENTS == "retrieval.documents"

\* The keys that start with COMPUTED_PREFIX.
ComputedKeys ==
    {LATENCY_MS, ERROR_COUNT, CUMULATIVE_LLM_TOKEN_COUNT_TOTAL,
     CUMULATIVE_LLM_TOKEN_COUNT_PROMPT, CUMULATIVE_LLM_TOKEN_COUNT_COMPLETION,
     CUMULATIVE_ERROR_COUNT}

\* key[len(ATTRIBUTE_PREFIX):]
suffix_key(key) ==
    CASE key = LLM_TOKEN_COUNT_TOTAL -> "llm.token_count.total"
      [] key = LLM_TOKEN_COUNT_PROMPT -> "llm.token_count.prompt"
      [] key = LLM_TOKEN_COUNT_COMPLETION -> "llm.token_count.completion"
      [] OTHER -> key

\* _CUMULATIVE_ATTRIBUTES.items(), in the dict's order: <<cumulative, underlying>>.
_CUMULATIVE_ATTRIBUTES ==
    << <<CUMULATIVE_LLM_TOKEN_COUNT_TOTAL, LLM_TOKEN_COUNT_TOTAL>>,
       <<CUMULATIVE_LLM_TOKEN_COUNT_PROMPT, LLM_TOKEN_COUNT_PROMPT>>,
       <<CUMULATIVE_LLM_TOKEN_COUNT_COMPLETION, LLM_TOKEN_COUNT_COMPLETION>>,
       <<CUMULATIVE_ERROR_COUNT, ERROR_COUNT>> >>

CumulativeKeys == {_CUMULATIVE_ATTRIBUTES[i][1] : i \in DOMAIN _CUMULATIVE_ATTRIBUTES}

\* ----------------------------------------------------------- dict helpers
EmptyDict == [k \in {} |-> 0]

\* d[k] = v
Put(d, k, v) == [x \in DOMAIN d \cup {k} |-> IF x = k THEN v ELSE d[x]]

\* The set replaced by the one value.
ReplaceSet(d, k, v) == Put(d, k, {v})

\* defaultdict(set)[k].add(v)
AddToSet(d, k, v) == Put(d, k, (IF k \in DOMAIN d THEN d[k] ELSE {}) \cup {v})

\* d.get(k) or ()   for a dict of sets
GetSet(d, k) == IF k \in DOMAIN d THEN d[k] ELSE {}

RECURSIVE SumOver(_, _)
SumOver(f, S) ==
    IF S = {} THEN 0
    ELSE LET x == CHOOSE y \in S : TRUE IN f[x] + SumOver(f, S \ {x})

\* The sequence left in its order.
InListOrder(seq) == seq

\* reverse=True
Reverse(seq) == [i \in 1..Len(seq) |-> seq[Len(seq) + 1 - i]]

Range(seq) == {seq[i] : i \in DOMAIN seq}

\* ---------------------------------------------------------- ReadableSpan
\* ReadableSpan.__init__: the decoded span with no computed value yet.
ReadableSpan(otlp_span) ==
    [span_id |-> otlp_span.span_id,
     trace_id |-> otlp_span.trace_id,
     parent_id |-> otlp_span.parent_id,
     start_time |-> otlp_span.start_time,
     end_time |-> otlp_span.end_time,
     status_code |-> otlp_span.status_code,
     attributes |-> otlp_span.attributes,
     computed |-> EmptyDict]

\* span[key] or 0: a computed key reads _self_computed_values, an attribute
\* key reads the decoded attributes; a missing key gives None, and None or 0
\* is 0.
ItemOrZero(span, key) ==
    IF key \in ComputedKeys
    THEN IF key \in DOMAIN span.computed THEN span.computed[key] ELSE 0
    ELSE IF suffix_key(key) \in DOMAIN span.attributes
         THEN span.attributes[suffix_key(key)]
         ELSE 0

\* ReadableSpan.__setitem__ with a computed key.
SetItem(span, key, value) ==
    [span EXCEPT !.computed = Put(span.computed, key, value)]

\* A key with COMPUTED_PREFIX that the store itself never writes.
LATENCY_RANK == "__computed__.latency_rank"

\* The test that every key passes.
startswith_anything(key) == TRUE

\* key.startswith(COMPUTED_PREFIX)
startswith_COMPUTED_PREFIX(key) == key \in ComputedKeys \cup {LATENCY_RANK}

\* ReadableSpan.__setitem__: KeyError for a key without COMPUTED_PREFIX,
\* else the value is written to _self_computed_values.
__setitem__(span, key, value) ==
    IF ~startswith_COMPUTED_PREFIX(key)
    THEN [raised |-> TRUE, span |-> span]
    ELSE [raised |-> FALSE, span |-> SetItem(span, key, value)]

\* ReadableSpan.span: the span decoded again from the received record, with
\* the computed values, as they are when the property is read, written over
\* its attributes.
span_property(span) ==
    [span_id |-> span.span_id,
     trace_id |-> span.trace_id,
     parent_id |-> span.parent_id,
     start_time |-> span.start_time,
     end_time |-> span.end_time,
     status_code |-> span.status_code,
     attributes |-> [k \in DOMAIN span.attributes \cup DOMAIN span.computed |->
                        IF k \in DOMAIN span.computed THEN span.computed[k]
                        ELSE span.attributes[k]]]

\* --------------------------------------------------------- SortedKeyList
\* The place before the values with the same key.
bisect_left(list, key, keyOf) ==
    Cardinality({i \in DOMAIN list : keyOf[list[i]] < key})

\* SortedKeyList.add places the value with bisect_right: after the values
\* whose key is not greater.
bisect_right(list, key, keyOf) ==
    Cardinality({i \in DOMAIN list : keyOf[list[i]] <= key})

\* The list kept in the order of arrival.
SortedKeyList_append(list, v, keyOf) == Append(list, v)

\* SortedKeyList.add: the value goes after the values whose key is not
\* greater (bisect_right).  keyOf maps every value, v included, to its key.
SortedKeyList_add(list, v, keyOf) ==
    LET n == bisect_right(list, keyOf[v], keyOf)
    IN SubSeq(list, 1, n) \o <<v>> \o SubSeq(list, n + 1, Len(list))

\* The range that leaves out the lower bound.
irange_key_open(list, keyOf, lo, hi) ==
    LET InRange(v) == lo < keyOf[v] /\ keyOf[v] < hi
    IN Reverse(SelectSeq(list, InRange))

\* tuple(list.irange_key(lo, hi, inclusive=(True, False), reverse=True))
irange_key(list, keyOf, lo, hi) ==
    LET InRange(v) == lo <= keyOf[v] /\ keyOf[v] < hi
    IN Reverse(SelectSeq(list, InRange))

\* ---------------------------------------------------------------- _Spans
\* Optional[datetime] None; a reading of the wall clock is 1 or more.
NoneTime == 0

\* _Spans.__init__
Spans_init ==
    [spans |-> EmptyDict,
     parent_span_ids |-> EmptyDict,
     traces |-> EmptyDict,
     child_spans |-> EmptyDict,
     num_documents |-> EmptyDict,
     start_time_sorted_spans |-> <<>>,
     start_time_sorted_root_spans |-> <<>>,
     latency_sorted_root_spans |-> <<>>,
     root_span_latency_ms_sketch |-> EmptyBag,
     token_count_total |-> 0,
     last_updated_at |-> NoneTime]

\* The check that lets every span in.
NeverDuplicate(S, span) == FALSE

\* span_id in self._spans
IsDuplicate(S, span) == span.span_id \in DOMAIN S.spans

is_root_span(span) == span.parent_id = None

\* _add_span: the child and parent maps, written before the span is stored.
LinkParent(S, span) ==
    IF is_root_span(span) THEN S
    ELSE [S EXCEPT !.child_spans = AddToSet(@, span.parent_id, span.span_id),
                   !.parent_span_ids = Put(@, span.span_id, span.parent_id)]

\* The latency left in seconds.
latency_seconds(span) == span.end_time - span.start_time

\* (end_time - start_time).total_seconds() * 1000, times in seconds.
latency_ms(span) == (span.end_time - span.start_time) * 1000

\* The count of every status that is not OK.
error_count_unless_ok(span) == IF span.status_code = "OK" THEN 0 ELSE 1

\* int(span.status_code is SpanStatusCode.ERROR)
error_count(span) == IF span.status_code = "ERROR" THEN 1 ELSE 0

\* _add_span: the computed attributes set on the span before it is stored.
WithComputed(span) ==
    SetItem(SetItem(span, LATENCY_MS, latency_ms(span)), ERROR_COUNT, error_count(span))

\* The sketch fed by every span.
SketchAddEverySpan(S, span) ==
    [S EXCEPT !.root_span_latency_ms_sketch = @ (+) SetToBag({latency_ms(span)})]

\* _add_span: the latency sketch, fed by root spans only.  The sketch is
\* kept as the bag of the values added to it.
SketchAdd(S, span) ==
    IF is_root_span(span)
    THEN [S EXCEPT !.root_span_latency_ms_sketch = @ (+) SetToBag({latency_ms(span)})]
    ELSE S

\* self._spans[span_id] = span
StoreSpan(S, span) == [S EXCEPT !.spans = Put(@, span.span_id, span)]

StartTimes(S) == [i \in DOMAIN S.spans |-> S.spans[i].start_time]
Latencies(S) == [i \in DOMAIN S.spans |-> S.spans[i].computed[LATENCY_MS]]

\* The span put into the lists of the root spans whether it has a parent
\* or not.
IndexSpanAsRoot(S, span) ==
    LET id == span.span_id
    IN [S EXCEPT !.traces = AddToSet(@, span.trace_id, id),
                 !.start_time_sorted_spans = SortedKeyList_add(@, id, StartTimes(S)),
                 !.start_time_sorted_root_spans = SortedKeyList_add(@, id, StartTimes(S)),
                 !.latency_sorted_root_spans = SortedKeyList_add(@, id, Latencies(S))]

\* _add_span: the trace set and the sorted lists, after the span is stored.
IndexSpan(S, span) ==
    LET id == span.span_id
        S1 == [S EXCEPT !.traces = AddToSet(@, span.trace_id, id),
                        !.start_time_sorted_spans =
                            SortedKeyList_add(@, id, StartTimes(S))]
    IN IF is_root_span(span)
       THEN [S1 EXCEPT !.start_time_sorted_root_spans =
                           SortedKeyList_add(@, id, StartTimes(S)),
                       !.latency_sorted_root_spans =
                           SortedKeyList_add(@, id, Latencies(S))]
       ELSE S1

\* for child_span in child_spans: span[cumulative_attribute] += child_span[...] or 0
\* The children are visited in the set's order; the order matters only when
\* the span is its own child, and then _update_ancestors never returns.
RECURSIVE AddChildValues(_, _, _, _)
AddChildValues(S, span_id, key, children) ==
    IF children = {} THEN S
    ELSE LET child == CHOOSE x \in children : TRUE
             S1 == [S EXCEPT !.spans[span_id] =
                        SetItem(@, key, @.computed[key] + ItemOrZero(S.spans[child], key))]
         IN AddChildValues(S1, span_id, key, children \ {child})

\* The span's own value alone, without its children's.
OwnValueOnly(S, span_id, i) ==
    [S EXCEPT !.spans[span_id] =
        SetItem(@, _CUMULATIVE_ATTRIBUTES[i][1],
                ItemOrZero(@, _CUMULATIVE_ATTRIBUTES[i][2]))]

\* _propagate_cumulative_values, one cumulative attribute:
\* span[cumulative] = span[attribute] or 0, then the children's values.
PropagateAttribute(S, span_id, i) ==
    LET key == _CUMULATIVE_ATTRIBUTES[i][1]
        attribute == _CUMULATIVE_ATTRIBUTES[i][2]
        S1 == [S EXCEPT !.spans[span_id] = SetItem(@, key, ItemOrZero(@, attribute))]
    IN AddChildValues(S1, span_id, key, GetSet(S.child_spans, span_id))

\* _propagate_cumulative_values, the loop over _CUMULATIVE_ATTRIBUTES.
RECURSIVE PropagateFrom(_, _, _)
PropagateFrom(S, span_id, i) ==
    IF i > Len(_CUMULATIVE_ATTRIBUTES) THEN S
    ELSE PropagateFrom(PropagateAttribute(S, span_id, i), span_id, i + 1)

\* _add_value_to_span_ancestors, the loop's test: the parent the next
\* iteration updates, or None when the loop ends (no parent recorded, or the
\* parent is not stored yet).
NextAncestor(S, span_id) ==
    IF span_id \in DOMAIN S.parent_span_ids
       /\ S.parent_span_ids[span_id] \in DOMAIN S.spans
    THEN S.parent_span_ids[span_id]
    ELSE None

\* The body that assigns the value instead of adding it.
SetValueOfParent(S, parent_span_id, attribute_name, value) ==
    [S EXCEPT !.spans[parent_span_id] = SetItem(@, attribute_name, value)]

\* _add_value_to_span_ancestors, the loop's body.
AddValueToParent(S, parent_span_id, attribute_name, value) ==
    [S EXCEPT !.spans[parent_span_id] =
        SetItem(@, attribute_name, ItemOrZero(@, attribute_name) + value)]

\* The walk that stops at the direct parent.
ParentOnly(S, span_id, attribute_name, value) ==
    IF NextAncestor(S, span_id) = None THEN S
    ELSE AddValueToParent(S, NextAncestor(S, span_id), attribute_name, value)

RECURSIVE _add_value_to_span_ancestors(_, _, _, _)
_add_value_to_span_ancestors(S, span_id, attribute_name, value) ==
    LET parent_span_id == NextAncestor(S, span_id)
    IN IF parent_span_id = None THEN S
       ELSE _add_value_to_span_ancestors(
                AddValueToParent(S, parent_span_id, attribute_name, value),
                parent_span_id, attribute_name, value)

\* _update_ancestors, from the i-th cumulative attribute on.
RECURSIVE UpdateAncestorsFrom(_, _, _)
UpdateAncestorsFrom(S, span_id, i) ==
    IF i > Len(_CUMULATIVE_ATTRIBUTES) THEN S
    ELSE LET attribute == _CUMULATIVE_ATTRIBUTES[i][1]
             value == ItemOrZero(S.spans[span_id], attribute)
         IN UpdateAncestorsFrom(
                _add_value_to_span_ancestors(S, span_id, attribute, value),
                span_id, i + 1)

\* The span's own totals without the update of its ancestors.
PropagateWithoutAncestors(S, span_id) ==
    PropagateFrom(S, span_id, 1)

_propagate_cumulative_values(S, span_id) ==
    UpdateAncestorsFrom(PropagateFrom(S, span_id, 1), span_id, 1)

\* The ancestor walk from span_id ends: following the recorded parents
\* through the stored spans never comes back to a span already passed.
RECURSIVE WalkEnds(_, _, _)
WalkEnds(S, span_id, passed) ==
    LET parent_span_id == NextAncestor(S, span_id)
    IN IF parent_span_id = None THEN TRUE
       ELSE IF parent_span_id \in passed THEN FALSE
       ELSE WalkEnds(S, parent_span_id, passed \cup {parent_span_id})

\* The update that takes the span's cumulative total.
AddCumulativeTokenCount(S, span) ==
    [S EXCEPT !.token_count_total =
        @ + ItemOrZero(S.spans[span.span_id], CUMULATIVE_LLM_TOKEN_COUNT_TOTAL)]

\* _update_cached_statistics: the running token total.
AddTokenCount(S, span) ==
    [S EXCEPT !.token_count_total =
        @ + ItemOrZero(span, LLM_TOKEN_COUNT_TOTAL)]

\* len(span.attributes.get(RETRIEVAL_DOCUMENTS) or ()) raises TypeError when
\* the attribute holds a truthy value that has no length.
LenRaises(span) ==
    /\ RETRIEVAL_DOCUMENTS \in DOMAIN span.attributes
    /\ span.attributes[RETRIEVAL_DOCUMENTS].type # "list"

\* The length that is 1 for a span without retrieved documents.
num_documents_or_one(span) ==
    IF RETRIEVAL_DOCUMENTS \in DOMAIN span.attributes
    THEN span.attributes[RETRIEVAL_DOCUMENTS].len
    ELSE 1

\* len(span.attributes.get(RETRIEVAL_DOCUMENTS) or ())
num_documents_update(span) ==
    IF RETRIEVAL_DOCUMENTS \in DOMAIN span.attributes
    THEN span.attributes[RETRIEVAL_DOCUMENTS].len
    ELSE 0

\* _update_cached_statistics: self._num_documents[span_id] += update
AddNumDocuments(S, span) ==
    IF num_documents_update(span) = 0 THEN S
    ELSE [S EXCEPT !.num_documents =
            Put(@, span.span_id,
                (IF span.span_id \in DOMAIN @ THEN @[span.span_id] ELSE 0)
                + num_documents_update(span))]

\* The clock that is set once and then kept.
SetFirstUpdatedAt(S, now) ==
    [S EXCEPT !.last_updated_at = IF @ = NoneTime THEN now ELSE @]

\* self._last_updated_at = datetime.now(timezone.utc)
SetLastUpdatedAt(S, now) == [S EXCEPT !.last_updated_at = now]

\* _add_span up to the point where _update_cached_statistics takes the
\* length of the retrieved documents.
AddSpanBody(S, span) ==
    LET S1 == LinkParent(S, span)
        S2 == SketchAdd(S1, span)
        S3 == StoreSpan(S2, WithComputed(span))
        S4 == IndexSpan(S3, span)
        S5 == _propagate_cumulative_values(S4, span.span_id)
    IN AddTokenCount(S5, span)

\* _Spans.add(span) at wall-clock time now: the store it leaves.  When len()
\* raises, the exception leaves add with everything before it written.
_add_span(S, span, now) ==
    IF IsDuplicate(S, span) THEN S
    ELSE IF LenRaises(span) THEN AddSpanBody(S, span)
    ELSE SetLastUpdatedAt(AddNumDocuments(AddSpanBody(S, span), span), now)

\* add(span) returns or raises: its ancestor walk ends.
AddReturns(S, span) ==
    IF IsDuplicate(S, span) THEN TRUE
    ELSE WalkEnds(StoreSpan(LinkParent(S, span), WithComputed(span)),
                  span.span_id, {span.span_id})

\* ---------------------------------------------------------------- _Evals
\* The value written only where there is none yet.
Put2IfAbsent(d, k1, k2, v) ==
    IF k1 \in DOMAIN d /\ k2 \in DOMAIN d[k1] THEN d
    ELSE Put(d, k1, Put(IF k1 \in DOMAIN d THEN d[k1] ELSE EmptyDict, k2, v))

\* d[k1][k2] = v and d[k1][k2][k3] = v on nested defaultdicts.
Put2(d, k1, k2, v) ==
    Put(d, k1, Put(IF k1 \in DOMAIN d THEN d[k1] ELSE EmptyDict, k2, v))

Put3(d, k1, k2, k3, v) ==
    Put(d, k1, Put2(IF k1 \in DOMAIN d THEN d[k1] ELSE EmptyDict, k2, k3, v))

\* _Evals.__init__.  A dict iterates in the order of insertion of its keys:
\* document_evaluation_order keeps that order for the keys
\* (name, span_id, document_position) of the document evaluations.
Evals_init ==
    [trace_evaluations_by_name |-> EmptyDict,
     evaluations_by_trace_id |-> EmptyDict,
     span_evaluations_by_name |-> EmptyDict,
     evaluations_by_span_id |-> EmptyDict,
     span_evaluation_labels |-> EmptyDict,
     document_evaluations_by_span_id |-> EmptyDict,
     document_evaluations_by_name |-> EmptyDict,
     document_evaluation_order |-> <<>>,
     last_updated_at |-> NoneTime]

\* evaluation.result.HasField(field)
HasField(evaluation, field) == field \in DOMAIN evaluation.result

\* The evaluation without a subject kept as a span evaluation of no span.
KeepWithoutSubject(E, evaluation) ==
    [E EXCEPT !.evaluations_by_span_id = Put2(@, None, evaluation.name, evaluation),
              !.span_evaluations_by_name = Put2(@, evaluation.name, None, evaluation)]

\* subject_id_kind is None: a warning is logged, nothing is stored.
Discard(E, evaluation) == E

\* The key of a document evaluation, appended at its first insertion.
InsertKey(order, key) ==
    IF key \in Range(order) THEN order ELSE Append(order, key)

\* The evaluation written to the index by subject only, not to the one by
\* name.
AddBySubjectOnly(E, evaluation) ==
    LET subject_id == evaluation.subject_id
        name == evaluation.name
    IN CASE subject_id.kind = "document_retrieval_id" ->
              [E EXCEPT !.document_evaluations_by_span_id =
                 Put3(@, subject_id.span_id, name, subject_id.document_position, evaluation)]
         [] subject_id.kind = "span_id" ->
              [E EXCEPT !.evaluations_by_span_id = Put2(@, subject_id.span_id, name, evaluation)]
         [] subject_id.kind = "trace_id" ->
              [E EXCEPT !.evaluations_by_trace_id = Put2(@, subject_id.trace_id, name, evaluation)]
         [] OTHER -> E

\* _Evals._add, the branch of the subject's kind (subject_id.WhichOneof("kind")).
AddBySubject(E, evaluation) ==
    LET subject_id == evaluation.subject_id
        name == evaluation.name
    IN CASE subject_id.kind = "document_retrieval_id" ->
              [E EXCEPT
                 !.document_evaluation_order =
                     InsertKey(@, <<name, subject_id.span_id, subject_id.document_position>>),
                 !.document_evaluations_by_span_id =
                     Put3(@, subject_id.span_id, name, subject_id.document_position, evaluation),
                 !.document_evaluations_by_name =
                     Put3(@, name, subject_id.span_id, subject_id.document_position, evaluation)]
         [] subject_id.kind = "span_id" ->
              [E EXCEPT
                 !.evaluations_by_span_id = Put2(@, subject_id.span_id, name, evaluation),
                 !.span_evaluations_by_name = Put2(@, name, subject_id.span_id, evaluation),
                 !.span_evaluation_labels =
                     IF HasField(evaluation, "label")
                     THEN AddToSet(@, name, evaluation.result["label"])
                     ELSE @]
         [] subject_id.kind = "trace_id" ->
              [E EXCEPT
                 !.evaluations_by_trace_id = Put2(@, subject_id.trace_id, name, evaluation),
                 !.trace_evaluations_by_name = Put2(@, name, subject_id.trace_id, evaluation)]
         [] OTHER -> Discard(E, evaluation)

\* The label recorded for an evaluation of any subject.
_add_with_label(E, evaluation, now) ==
    [AddBySubject(E, evaluation) EXCEPT
        !.last_updated_at = now,
        !.span_evaluation_labels =
            IF HasField(evaluation, "label") /\ evaluation.subject_id.kind # None
            THEN AddToSet(@, evaluation.name, evaluation.result["label"])
            ELSE @]

\* _Evals.add(evaluation) at wall-clock time now: the clock is set on every
\* path that does not raise.
_add(E, evaluation, now) ==
    [AddBySubject(E, evaluation) EXCEPT !.last_updated_at = now]

\* get_span_evaluation: the evaluation stored for the span under the name,
\* or None (the evaluation of no name and no subject).
get_span_evaluation(E, span_id, name) ==
    IF span_id \in DOMAIN E.evaluations_by_span_id
       /\ name \in DOMAIN E.evaluations_by_span_id[span_id]
    THEN E.evaluations_by_span_id[span_id][name]
    ELSE [name |-> "", subject_id |-> [kind |-> None, span_id |-> None,
                                       trace_id |-> None, document_position |-> 0],
          result |-> EmptyDict]

\* get_span_evaluation_labels: tuple(labels), or (); the order of a set is
\* not fixed, the result is kept as the set.
get_span_evaluation_labels(E, name) == GetSet(E.span_evaluation_labels, name)

\* np.nan; a score read is <<value>>.
NaN == <<>>

\* scores[document_position] = value on a Python list: an index past the
\* end raises IndexError.
ListSetItem(list, index, value) ==
    IF list.raised \/ index >= Len(list.scores)
    THEN [list EXCEPT !.raised = TRUE]
    ELSE [list EXCEPT !.scores[index + 1] = value]

\* The test that lets the position equal to num_documents in.
ScoreWrittenUpTo(evaluation, document_position, num_documents) ==
    HasField(evaluation, "score") /\ document_position <= num_documents

\* result.HasField("score") and document_position < num_documents
ScoreWritten(evaluation, document_position, num_documents) ==
    HasField(evaluation, "score") /\ document_position < num_documents

\* get_document_evaluation_scores, the loop over evaluations.items().
RECURSIVE WriteScores(_, _, _, _)
WriteScores(list, evaluations, positions, num_documents) ==
    IF positions = {} THEN list
    ELSE LET document_position == CHOOSE x \in positions : TRUE
             evaluation == evaluations[document_position]
         IN WriteScores(
                IF ScoreWritten(evaluation, document_position, num_documents)
                THEN ListSetItem(list, document_position, <<evaluation.result["score"]>>)
                ELSE list,
                evaluations, positions \ {document_position}, num_documents)

\* get_document_evaluation_scores: [np.nan] * num_documents, then the scores
\* of the evaluations stored for the span under the name.
get_document_evaluation_scores(E, span_id, evaluation_name, num_documents) ==
    LET scores == [raised |-> FALSE, scores |-> [i \in 1..num_documents |-> NaN]]
        by_span == E.document_evaluations_by_span_id
    IN IF span_id \notin DOMAIN by_span THEN scores
       ELSE IF evaluation_name \notin DOMAIN by_span[span_id] THEN scores
       ELSE LET evaluations == by_span[span_id][evaluation_name]
            IN WriteScores(scores, evaluations, DOMAIN evaluations, num_documents)

\* ------------------------------------------------------------ the inputs
OtlpSpan(span_id, parent_id, shape) ==
    [span_id |-> span_id,
     trace_id |-> shape.trace_id,
     parent_id |-> parent_id,
     start_time |-> shape.start_time,
     end_time |-> shape.end_time,
     status_code |-> shape.status_code,
     attributes |-> shape.attributes]

Documents(n) == [type |-> "list", len |-> n]
NotAList == [type |-> "int", len |-> 0]

\* What a received span carries besides its ids: spans with and without
\* token counts, of each status, with equal and with different start times,
\* with retrieved documents, and one whose retrieval.documents attribute is
\* a number instead of a list.
SpanShapes ==
    {[trace_id |-> "t1", start_time |-> 0, end_time |-> 1,
      status_code |-> IF k = 0 THEN "UNSET" ELSE "OK",
      attributes |-> IF k = 0 THEN EmptyDict
                     ELSE ("llm.token_count.total" :> k) @@ ("llm.token_count.prompt" :> k)]
        : k \in 0..MaxTokens}
    \cup
    {[trace_id |-> "t2", start_time |-> t, end_time |-> t, status_code |-> "ERROR",
      attributes |-> ("llm.token_count.total" :> 1) @@ ("llm.token_count.completion" :> 1)
                     @@ (RETRIEVAL_DOCUMENTS :> Documents(t))]
        : t \in 1..MaxTime}
    \cup
    {[trace_id |-> "t1", start_time |-> MaxTime, end_time |-> MaxTime + 2,
      status_code |-> "UNSET",
      attributes |-> (RETRIEVAL_DOCUMENTS :> NotAList)]}

\* Every span id with every parent (none, stored or not yet stored, so that
\* children arrive before and after their parents) and every shape.
AllSpanInputs ==
    {OtlpSpan(id, p, sh) : id \in SpanIDs, p \in SpanIDs \cup {None}, sh \in SpanShapes}

\* The spans that do not name themselves as their parent.
SpanInputs == {s \in AllSpanInputs : s.parent_id # s.span_id}

Evaluation(name, subject_id, result) ==
    [name |-> name, subject_id |-> subject_id, result |-> result]

SpanSubject(span_id) ==
    [kind |-> "span_id", span_id |-> span_id, trace_id |-> None, document_position |-> 0]
TraceSubject(trace_id) ==
    [kind |-> "trace_id", span_id |-> None, trace_id |-> trace_id, document_position |-> 0]
DocumentSubject(span_id, position) ==
    [kind |-> "document_retrieval_id", span_id |-> span_id, trace_id |-> None,
     document_position |-> position]
NoSubject ==
    [kind |-> None, span_id |-> None, trace_id |-> None, document_position |-> 0]

\* Evaluations of every subject kind, two of them with the same key and
\* different results.
EvalInputs ==
    {Evaluation("rel", SpanSubject("a"), ("label" :> "yes") @@ ("score" :> 1)),
     Evaluation("rel", SpanSubject("a"), ("label" :> "no")),
     Evaluation("rel", TraceSubject("t1"), ("score" :> 1)),
     Evaluation("doc", DocumentSubject("a", 1), ("score" :> 1)),
     Evaluation("doc", NoSubject, ("score" :> 1))}

\* More evaluations: a span evaluation with neither label nor score, trace
\* and document evaluations that carry a label and write over the ones
\* above, a span evaluation of another name, and document evaluations at
\* another position and of another span.
AllEvalInputs ==
    EvalInputs
    \cup
    {Evaluation("rel", SpanSubject("b"), ("explanation" :> "x")),
     Evaluation("rel", TraceSubject("t1"), ("label" :> "tr")),
     Evaluation("doc", DocumentSubject("a", 1), ("label" :> "d")),
     Evaluation("qa", SpanSubject("a"), ("label" :> "yes")),
     Evaluation("doc", DocumentSubject("a", 0), ("score" :> 2)),
     Evaluation("doc", DocumentSubject("b", 0), ("score" :> 1))}

\* The number of evaluations added to one Project.
MaxEvals == 4

\* The length of the input sequences whose orders are compared.
MaxInputs == 3

\* The spans fed in every order: parents are drawn so that no order closes a
\* cycle (a is a root, b is a root or a child of a, c is a child of a or b),
\* and a span id comes with several different records.
PermSpanInputs ==
    {s \in SpanInputs :
        /\ ~LenRaises(s)
        /\ s.attributes # EmptyDict
        /\ \/ s.span_id = "a" /\ s.parent_id = None
           \/ s.span_id = "b" /\ s.parent_id \in {None, "a"}
           \/ s.span_id = "c" /\ s.parent_id \in {"a", "b"}}

PermInputs ==
    {[kind |-> "span", span |-> s, evaluation |-> Evaluation("", NoSubject, EmptyDict)]
        : s \in PermSpanInputs}
    \cup
    {[kind |-> "eval", span |-> OtlpSpan("", None, CHOOSE sh \in SpanShapes : TRUE),
      evaluation |-> e] : e \in EvalInputs}

\* Project.add_span or Project.add_eval, by the kind of input, on the pair
\* of stores.
Ingest(P, input, now) ==
    IF input.kind = "span"
    THEN [P EXCEPT !.spans = _add_span(@, ReadableSpan(input.span), now)]
    ELSE [P EXCEPT !.evals = _add(@, input.evaluation, now)]

\* The inputs of a bag, ingested in one fixed order.
RECURSIVE IngestBag(_, _, _)
IngestBag(P, B, now) ==
    IF BagToSet(B) = {} THEN P
    ELSE LET x == CHOOSE y \in BagToSet(B) : TRUE
         IN IngestBag(Ingest(P, x, now), B (-) SetToBag({x}), now)

RECURSIVE SeqToBag(_)
SeqToBag(seq) ==
    IF seq = <<>> THEN EmptyBag ELSE SetToBag({Head(seq)}) (+) SeqToBag(Tail(seq))

\* --------------------------------------------------------------- threads
Threads == {"p", "q"}

\* threading.RLock
NoLock == [owner |-> None, count |-> 0]
\* The lock that keeps nobody out.
CanAcquireAlways(lock, t) == TRUE

CanAcquire(lock, t) == lock.owner \in {None, t}
Acquire(lock, t) == [owner |-> t, count |-> lock.count + 1]
\* A release that counts down and keeps the owner.
ReleaseKeepsOwner(lock) == [lock EXCEPT !.count = @ - 1]

Release(lock) == IF lock.count = 1 THEN NoLock ELSE [lock EXCEPT !.count = @ - 1]

\* Optional[datetime] arguments: <<>> is None, <<t>> is the time t.
NoArg == <<>>

NoSpan == ReadableSpan(OtlpSpan("", None, CHOOSE sh \in SpanShapes : TRUE))
NoEvaluation == Evaluation("", NoSubject, EmptyDict)
NoSpansArgs == [start_time |-> NoArg, stop_time |-> NoArg, root_spans_only |-> FALSE,
                by_ids |-> FALSE, span_ids |-> <<>>]

\* export_evaluations before its first step.  began is the evaluation store
\* as it was when the call was made.
NoExport ==
    [part |-> "span",       \* _export_span_evaluations or _export_document_evaluations
     names |-> <<>>,        \* the names of the tuple still to come
     eval_name |-> "",
     span_ids |-> <<>>,     \* the span ids of the tuple still to come
     span_id |-> "",
     rows |-> <<>>,
     frames |-> <<>>,       \* the list that is returned
     began |-> Evals_init]

\* A thread that runs no operation.
IdleFrame ==
    [op |-> "none",
     span |-> NoSpan,               \* add_span's argument
     evaluation |-> NoEvaluation,   \* add_eval's argument
     target |-> "",                 \* the trace_id or span_id asked about
     args |-> NoSpansArgs,          \* get_spans' arguments
     i |-> 0,                       \* _update_ancestors: the attribute's index
     span_id |-> "",                \* _add_value_to_span_ancestors: span_id
     value |-> 0,                   \* _add_value_to_span_ancestors: value
     passed |-> {},                 \* the spans this walk has passed
     spans |-> <<>>,                \* the tuple being iterated, what is left of it
     stack |-> <<>>,                \* the suspended tuples of the callers
     then |-> "",                   \* where the thread goes on after unlocking
     yielded |-> <<>>,              \* the span ids yielded so far
     at_snapshot |-> <<>>,          \* what .span of the tuple's spans was at the snapshot
     matching |-> {},               \* the matching spans when the snapshot was taken
     prior |-> {},                  \* the matching spans when the iteration started
     frozen |-> TRUE,               \* every value read was as it was at the snapshot
     failed |-> FALSE,              \* the operation raised
     export |-> NoExport]           \* export_evaluations: its local variables

\* The order in which a set is iterated: one fixed order per set.
RECURSIVE Tuple(_)
Tuple(S) ==
    IF S = {} THEN <<>>
    ELSE LET x == CHOOSE y \in S : TRUE IN <<x>> \o Tuple(S \ {x})

\* One minute, in seconds.
EPSILON == 60

\* phoenix.datetime_utils.right_open_time_range
right_open_time_range(min_start_time, max_start_time) ==
    <<min_start_time, max_start_time + EPSILON>>

\* The first and the last span's start times as they are, without the
\* utility: a range closed on the right taken for a right-open one.
first_and_last_start_time(S) ==
    LET sorted == S.start_time_sorted_spans
    IN IF sorted = <<>> THEN <<NoArg, NoArg>>
       ELSE <<(<<S.spans[sorted[1]].start_time>>),
              (<<S.spans[sorted[Len(sorted)]].start_time>>)>>

\* _Spans.right_open_time_range: (None, None) when the sorted list is empty,
\* else the utility's range of the first and the last span's start times.
\* An Optional is <<>> or <<value>>.
Spans_right_open_time_range(S) ==
    LET sorted == S.start_time_sorted_spans
    IN IF sorted = <<>> THEN <<NoArg, NoArg>>
       ELSE LET r == right_open_time_range(S.spans[sorted[1]].start_time,
                                           S.spans[sorted[Len(sorted)]].start_time)
            IN <<(<<r[1]>>), (<<r[2]>>)>>

\* get_trace: tuple(trace), or nothing when the trace is unknown.
TraceSnapshot(S, trace_id) == Tuple(GetSet(S.traces, trace_id))

\* The tuple taken without the root_spans_only filter.
UnfilteredSnapshot(S, args, start_time, stop_time) ==
    IF args.by_ids
    THEN LET Keep(id) ==
                 /\ id \in DOMAIN S.spans
                 /\ start_time <= S.spans[id].start_time
                 /\ S.spans[id].start_time < stop_time
         IN SelectSeq(args.span_ids, Keep)
    ELSE irange_key(S.start_time_sorted_spans, StartTimes(S), start_time, stop_time)

\* get_spans: the tuple taken under the lock, of the spans named by span_ids
\* or of the sorted list's range, within [start_time, stop_time).
SpansSnapshot(S, args, start_time, stop_time) ==
    IF args.by_ids
    THEN LET Keep(id) ==
                 /\ id \in DOMAIN S.spans
                 /\ start_time <= S.spans[id].start_time
                 /\ S.spans[id].start_time < stop_time
                 /\ (~args.root_spans_only \/ S.spans[id].parent_id = None)
         IN SelectSeq(args.span_ids, Keep)
    ELSE irange_key(IF args.root_spans_only THEN S.start_time_sorted_root_spans
                    ELSE S.start_time_sorted_spans,
                    StartTimes(S), start_time, stop_time)

\* The call that answers span_ids from the sorted list, most recent first.
get_spans_in_time_order(S, args) ==
    IF DOMAIN S.spans = {} THEN <<>>
    ELSE LET range == Spans_right_open_time_range(S)
             start_time == IF args.start_time = NoArg THEN range[1] ELSE args.start_time
             stop_time == IF args.stop_time = NoArg THEN range[2] ELSE args.stop_time
             Named(id) == args.by_ids => id \in Range(args.span_ids)
         IN SelectSeq(SpansSnapshot(S, [args EXCEPT !.by_ids = FALSE],
                                    start_time[1], stop_time[1]), Named)

\* _Spans.get_spans run to its end by one caller: nothing when the store is
\* empty, the bounds left out taken from right_open_time_range, then the
\* tuple, yielded in its order.
get_spans(S, args) ==
    IF DOMAIN S.spans = {} THEN <<>>
    ELSE LET range == Spans_right_open_time_range(S)
             start_time == IF args.start_time = NoArg THEN range[1] ELSE args.start_time
             stop_time == IF args.stop_time = NoArg THEN range[2] ELSE args.stop_time
         IN SpansSnapshot(S, args, start_time[1], stop_time[1])

\* _get_descendant_spans: tuple(child_spans), or nothing.
ChildrenSnapshot(S, span_id) == Tuple(GetSet(S.child_spans, span_id))

\* _Spans.get_trace run to its end by one caller: the spans of the tuple,
\* yielded in its order.
get_trace(S, trace_id) == TraceSnapshot(S, trace_id)

\* self._num_documents.get(span_id) or 0
get_num_documents(S, span_id) ==
    IF span_id \in DOMAIN S.num_documents THEN S.num_documents[span_id] ELSE 0

\* _get_descendant_spans run to its end by one caller: for every child of
\* the tuple, the child and then what the call on the child yields.  depth
\* bounds the nesting of the calls, which has no end when the child map has
\* a cycle.
RECURSIVE _get_descendant_spans(_, _, _)
\* The children alone, without the calls on them.
ChildrenOnly(S, spans, depth) == spans

RECURSIVE YieldFrom(_, _, _)
YieldFrom(S, spans, depth) ==
    IF spans = <<>> THEN <<>>
    ELSE <<Head(spans)>>
         \o _get_descendant_spans(S, Head(spans), depth - 1)
         \o YieldFrom(S, Tail(spans), depth)

_get_descendant_spans(S, span_id, depth) ==
    IF depth = 0 THEN <<>>
    ELSE YieldFrom(S, ChildrenSnapshot(S, span_id), depth)

\* No chain of distinct spans is longer than the number of span ids.
MaxDepth == Cardinality(SpanIDs) + 1

get_descendant_spans(S, span_id) == _get_descendant_spans(S, span_id, MaxDepth)

\* The calls the threads make.
ConcSpanInputs ==
    {s \in AllSpanInputs :
        /\ ~LenRaises(s)
        /\ \/ s.span_id = "a" /\ s.parent_id = None /\ s.status_code = "OK"
              /\ s.attributes # EmptyDict
           \/ s.span_id = "b" /\ s.parent_id = "a" /\ s.status_code = "ERROR"
           \/ s.span_id = "c" /\ s.parent_id \in {"b", "c"} /\ s.status_code = "OK"
              /\ s.attributes # EmptyDict}

ConcEvalInputs ==
    {e \in EvalInputs : e.subject_id.kind \in {"span_id", None} /\ HasField(e, "score")}

ConcSpansArgs ==
    {NoSpansArgs,
     [NoSpansArgs EXCEPT !.start_time = <<0>>, !.stop_time = <<MaxTime>>,
                         !.root_spans_only = TRUE],
     [NoSpansArgs EXCEPT !.by_ids = TRUE, !.span_ids = <<"c", "a", "a">>]}

\* ------------------------------------------------------ _Evals, the reads
\* The reads that return list(d), tuple(d.keys()) or list(d.values()) are
\* kept as the set of the elements: the order of the elements is the
\* dict's.
Values(d) == {d[k] : k \in DOMAIN d}

get_span_evaluation_names(E) == DOMAIN E.span_evaluations_by_name

\* The names of all document evaluations for a span that has none.
get_document_evaluation_names_or_all(E, span_id) ==
    IF span_id \in DOMAIN E.document_evaluations_by_span_id
    THEN DOMAIN E.document_evaluations_by_span_id[span_id]
    ELSE DOMAIN E.document_evaluations_by_name

\* span_id is None: the names of all document evaluations.
get_document_evaluation_names(E, span_id) ==
    IF span_id = None THEN DOMAIN E.document_evaluations_by_name
    ELSE IF span_id \in DOMAIN E.document_evaluations_by_span_id
    THEN DOMAIN E.document_evaluations_by_span_id[span_id]
    ELSE {}

get_span_evaluation_span_ids(E, name) ==
    IF name \in DOMAIN E.span_evaluations_by_name
    THEN DOMAIN E.span_evaluations_by_name[name]
    ELSE {}

get_evaluations_by_span_id(E, span_id) ==
    IF span_id \in DOMAIN E.evaluations_by_span_id
    THEN Values(E.evaluations_by_span_id[span_id])
    ELSE {}

get_document_evaluation_span_ids(E, name) ==
    IF name \in DOMAIN E.document_evaluations_by_name
    THEN DOMAIN E.document_evaluations_by_name[name]
    ELSE {}

get_document_evaluations_by_span_id(E, span_id) ==
    IF span_id \in DOMAIN E.document_evaluations_by_span_id
    THEN UNION {Values(E.document_evaluations_by_span_id[span_id][name]) :
                    name \in DOMAIN E.document_evaluations_by_span_id[span_id]}
    ELSE {}

\* The positions of _document_evaluations_by_name[name][span_id], in the
\* order its items() gives them.
PositionsInOrder(E, eval_name, span_id) ==
    LET Here(key) == key[1] = eval_name /\ key[2] = span_id
        keys == SelectSeq(E.document_evaluation_order, Here)
    IN [i \in DOMAIN keys |-> keys[i][3]]

\* The items left in the order of the dict.
InDictOrder(seq) == seq

\* sorted(...) of the items of one span: ascending document_position.
RECURSIVE sorted(_)
sorted(seq) ==
    IF seq = <<>> THEN <<>>
    ELSE LET rest == sorted(Tail(seq))
             n == Cardinality({i \in DOMAIN rest : rest[i] <= Head(seq)})
         IN SubSeq(rest, 1, n) \o <<Head(seq)>> \o SubSeq(rest, n + 1, Len(rest))

\* MessageToDict(pb_eval.result): the fields the result has.
MessageToDict(result) == [field \in DOMAIN result |-> result[field]]

\* _export_span_evaluations: one SpanEvaluations per item of
\* _span_evaluations_by_name, one row per item of its inner dict.
_export_span_evaluations(E) ==
    LET names == Tuple(DOMAIN E.span_evaluations_by_name)
        Frame(eval_name) ==
            LET by_id == E.span_evaluations_by_name[eval_name]
                span_ids == Tuple(DOMAIN by_id)
            IN [kind |-> "SpanEvaluations", eval_name |-> eval_name,
                rows |-> [i \in DOMAIN span_ids |->
                            [span_id |-> span_ids[i], document_position |-> 0,
                             row |-> MessageToDict(by_id[span_ids[i]].result)]]]
    IN [i \in DOMAIN names |-> Frame(names[i])]

\* _export_document_evaluations, the rows of one name: span after span, the
\* items of each span sorted by document_position.
RECURSIVE DocumentRows(_, _, _)
DocumentRows(E, eval_name, span_ids) ==
    IF span_ids = <<>> THEN <<>>
    ELSE LET span_id == Head(span_ids)
             by_position == E.document_evaluations_by_name[eval_name][span_id]
             positions == sorted(PositionsInOrder(E, eval_name, span_id))
         IN [i \in DOMAIN positions |->
                [span_id |-> span_id, document_position |-> positions[i],
                 row |-> MessageToDict(by_position[positions[i]].result)]]
            \o DocumentRows(E, eval_name, Tail(span_ids))

_export_document_evaluations(E) ==
    LET names == Tuple(DOMAIN E.document_evaluations_by_name)
    IN [i \in DOMAIN names |->
            [kind |-> "DocumentEvaluations", eval_name |-> names[i],
             rows |-> DocumentRows(E, names[i],
                        Tuple(DOMAIN E.document_evaluations_by_name[names[i]]))]]

export_evaluations(E) ==
    _export_span_evaluations(E) \o _export_document_evaluations(E)

\* ------------------------------------------------------------- the state
VARIABLES
    Spans,      \* Project._spans, the _Spans instance
    clock,      \* the wall clock, datetime.now(timezone.utc)
    call,       \* the last call made on the Project and how it ended
    Evals,      \* Project._evals, the _Evals instance
    todo,       \* the inputs still to be ingested, in their order of arrival
    fed,        \* the inputs ingested so far
    pc,         \* where each thread is in the operation it runs
    frame,      \* each thread's arguments and local variables
    spans_lock, \* _Spans._lock, an RLock: its owner and how often it holds it
    evals_lock, \* _Evals._lock
    committed,  \* the span store as the last completed add(span) left it
    Other       \* a second Project of the process, and the span objects it
                \* holds that the first Project holds too

permvars == <<todo, fed>>
threadvars == <<pc, frame, spans_lock, evals_lock, committed>>

vars == <<Spans, Evals, clock, call, todo, fed, pc, frame, spans_lock, evals_lock, committed,
          Other>>

\* Project.__init__ of the second Project.
NoOther == [spans |-> Spans_init, evals |-> Evals_init, same |-> {}]

\* result: what the last call of Project.last_updated_at returned.
NoCall == [op |-> "none", outcome |-> "none", result |-> 0]

\* Project.__init__
Init ==
    /\ Spans = Spans_init
    /\ Evals = Evals_init
    /\ clock = 1
    /\ call = NoCall
    /\ todo = <<>>
    /\ fed = <<>>
    /\ pc = [t \in Threads |-> "idle"]
    /\ frame = [t \in Threads |-> IdleFrame]
    /\ spans_lock = NoLock
    /\ evals_lock = NoLock
    /\ committed = Spans_init
    /\ Other = NoOther

\* Project.add_span(span), run to its end by one caller.
AddSpan(otlp_span) ==
    LET span == ReadableSpan(otlp_span)
    IN /\ AddReturns(Spans, span)
       /\ Spans' = _add_span(Spans, span, clock)
       /\ call' = [op |-> "add_span",
                   outcome |-> IF span.span_id \in DOMAIN Spans.spans THEN "repeated"
                               ELSE IF LenRaises(span) THEN "raised"
                               ELSE "stored",
                   result |-> call.result]
       /\ UNCHANGED <<Other, Evals, clock, permvars, threadvars>>

\* Time passes.
Tick ==
    /\ clock < MaxClock
    /\ clock' = clock + 1
    /\ UNCHANGED <<Other, Spans, Evals, call, permvars, threadvars>>

Next ==
    \/ \E s \in SpanInputs : AddSpan(s)
    \/ Tick

Spec == Init /\ [][Next]_vars

\* One sequence of inputs, ingested in its order into one Project.
InitPerm ==
    /\ Spans = Spans_init
    /\ Evals = Evals_init
    /\ clock = 1
    /\ call = NoCall
    /\ todo \in UNION {[1..n -> PermInputs] : n \in 0..MaxInputs}
    /\ fed = <<>>
    /\ pc = [t \in Threads |-> "idle"]
    /\ frame = [t \in Threads |-> IdleFrame]
    /\ spans_lock = NoLock
    /\ evals_lock = NoLock
    /\ committed = Spans_init
    /\ Other = NoOther

IngestNext ==
    /\ todo # <<>>
    /\ LET P == Ingest([spans |-> Spans, evals |-> Evals], Head(todo), clock)
       IN Spans' = P.spans /\ Evals' = P.evals
    /\ todo' = Tail(todo)
    /\ fed' = Append(fed, Head(todo))
    /\ UNCHANGED <<Other, clock, call, threadvars>>

NextPerm == IngestNext

SpecPerm == InitPerm /\ [][NextPerm]_vars

\* Project.add_eval(evaluation), run to its end by one caller, and kept in
\* the record of what was fed.
AddEval(evaluation) ==
    /\ Len(fed) < MaxEvals
    /\ Evals' = _add(Evals, evaluation, clock)
    /\ fed' = Append(fed, [kind |-> "eval",
                           span |-> OtlpSpan("", None, CHOOSE sh \in SpanShapes : TRUE),
                           evaluation |-> evaluation])
    /\ call' = [op |-> "add_eval", outcome |-> "returned", result |-> call.result]
    /\ UNCHANGED <<Other, Spans, clock, todo, threadvars>>

NextEvals ==
    \/ \E e \in AllEvalInputs : AddEval(e)
    \/ Tick

SpecEvals == Init /\ [][NextEvals]_vars

\* A caller sets an item of a stored span: span[key] = value.
ItemSpanInputs == {s \in ConcSpanInputs : s.span_id \in {"a", "b"}}
ItemKeys == {ERROR_COUNT, LATENCY_RANK, LLM_TOKEN_COUNT_TOTAL, "name", "context.span_id"}
ItemValues == {0, 5}

SetSpanItem(span_id, key, value) ==
    /\ span_id \in DOMAIN Spans.spans
    /\ LET item == __setitem__(Spans.spans[span_id], key, value)
       IN /\ Spans' = [Spans EXCEPT !.spans[span_id] = item.span]
          /\ call' = [op |-> "setitem",
                      outcome |-> IF item.raised THEN "raised" ELSE "returned",
                      result |-> call.result]
    /\ UNCHANGED <<Other, Evals, clock, permvars, threadvars>>

NextItem ==
    \/ \E s \in ItemSpanInputs : AddSpan(s)
    \/ \E span_id \in SpanIDs, key \in ItemKeys, value \in ItemValues :
            SetSpanItem(span_id, key, value)

SpecItem == Init /\ [][NextItem]_vars

\* Two Projects of one process.  Project.add_span hands the ReadableSpan it
\* is given to _Spans.add, which keeps that object in _spans and in
\* _child_spans; the computed values are in the object.  A caller that wraps
\* the received record for each Project gives each Project an object of its
\* own; a caller that gives one ReadableSpan to both gives both the same
\* object, and same is the set of span ids at which they hold one object.
ProjectNames == {"P", "Q"}
_spans_of(project) == IF project = "P" THEN Spans ELSE Other.spans
_evals_of(project) == IF project = "P" THEN Evals ELSE Other.evals
other_than(project) == IF project = "P" THEN "Q" ELSE "P"

\* The store S read after T was written: an object that both hold has the
\* computed values that the last writer left in it.
SharedObjects(S, T, same) ==
    [S EXCEPT !.spans = [id \in DOMAIN @ |-> IF id \in same THEN T.spans[id] ELSE @[id]]]

\* project.add_span(span) for a ReadableSpan object, which joins same when
\* the other Project holds it: the stores of both Projects afterwards.
add_span_object(project, span, same) ==
    LET S == _add_span(_spans_of(project), span, clock)
        T == SharedObjects(_spans_of(other_than(project)), S, same)
    IN /\ AddReturns(_spans_of(project), span)
       /\ Spans' = IF project = "P" THEN S ELSE T
       /\ Other' = [Other EXCEPT !.spans = IF project = "P" THEN T ELSE S,
                                 !.same = same]
       /\ call' = [op |-> "add_span", outcome |-> project, result |-> call.result]
       /\ UNCHANGED <<Evals, clock, permvars, threadvars>>

\* project.add_span(ReadableSpan(otlp_span)): the record in a new object.
AddSpanTo(project, otlp_span) ==
    add_span_object(project, ReadableSpan(otlp_span), Other.same)

\* project.add_span(span) with the ReadableSpan that the other Project holds
\* at span_id.
AddSameSpanTo(project, span_id) ==
    /\ span_id \in DOMAIN _spans_of(other_than(project)).spans
    /\ add_span_object(project, _spans_of(other_than(project)).spans[span_id],
                       IF span_id \in DOMAIN _spans_of(project).spans THEN Other.same
                       ELSE Other.same \cup {span_id})

\* project.add_eval(evaluation)
AddEvalTo(project, evaluation) ==
    /\ Evals' = IF project = "P" THEN _add(Evals, evaluation, clock) ELSE Evals
    /\ Other' = IF project = "Q"
                THEN [Other EXCEPT !.evals = _add(Other.evals, evaluation, clock)]
                ELSE Other
    /\ call' = [op |-> "add_eval", outcome |-> project, result |-> call.result]
    /\ UNCHANGED <<Spans, clock, permvars, threadvars>>

ProjectEvalInputs == {e \in ConcEvalInputs : e.subject_id.kind = "span_id"}

NextProjects ==
    \/ \E project \in ProjectNames, s \in ItemSpanInputs : AddSpanTo(project, s)
    \/ \E project \in ProjectNames, span_id \in SpanIDs : AddSameSpanTo(project, span_id)
    \/ \E project \in ProjectNames, e \in ProjectEvalInputs : AddEvalTo(project, e)

SpecProjects == Init /\ [][NextProjects]_vars

\* ------------------------------------------------- the threads' operations
\* Each thread calls the Project's operations one after the other; an
\* operation is a sequence of steps, one per access to the shared stores or
\* to a lock, in the order of the code.
Goto(t, label) == pc' = [pc EXCEPT ![t] = label]
Local(t, f) == frame' = [frame EXCEPT ![t] = f]

\* The pcs at which a thread waits for _Spans._lock, and where it goes on.
AfterSpansLock ==
    [add_acquire |-> "add_span",
     gt_acquire |-> "gt_snapshot",
     range_acquire |-> "range_read",
     gs_acquire |-> "gs_snapshot",
     gd_acquire |-> "gd_snapshot"]

\* with self._lock: (of _Spans)
LockSpans(t) ==
    /\ pc[t] \in DOMAIN AfterSpansLock
    /\ CanAcquire(spans_lock, t)
    /\ spans_lock' = Acquire(spans_lock, t)
    /\ Goto(t, AfterSpansLock[pc[t]])
    /\ UNCHANGED <<Other, Spans, Evals, clock, call, permvars, frame, evals_lock, committed>>

\* A with block that goes on to what follows it with the lock still held.
KeepSpansLock(t) ==
    /\ pc[t] = "unlock_spans"
    /\ committed' = IF frame[t].op = "add_span" THEN Spans ELSE committed
    /\ Goto(t, frame[t].then)
    /\ UNCHANGED <<Other, Spans, Evals, clock, call, permvars, frame, spans_lock, evals_lock>>

\* The end of a with self._lock: block of _Spans.  When the block is add's,
\* the ingest is complete.
UnlockSpans(t) ==
    /\ pc[t] = "unlock_spans"
    /\ spans_lock' = Release(spans_lock)
    /\ committed' = IF frame[t].op = "add_span" THEN Spans ELSE committed
    /\ Goto(t, frame[t].then)
    /\ UNCHANGED <<Other, Spans, Evals, clock, call, permvars, frame, evals_lock>>

\* Project.add_span(span) is called.
CallAddSpan(t, otlp_span) ==
    /\ pc[t] = "idle"
    /\ Goto(t, "add_acquire")
    /\ Local(t, [IdleFrame EXCEPT !.op = "add_span", !.span = ReadableSpan(otlp_span),
                                  !.then = "returned"])
    /\ UNCHANGED <<Other, Spans, Evals, clock, call, permvars, spans_lock, evals_lock, committed>>

\* _add_span up to self._spans[span_id] = span.
AddStore(t) ==
    /\ pc[t] = "add_span"
    /\ LET span == frame[t].span
       IN IF IsDuplicate(Spans, span)
          THEN /\ Goto(t, "unlock_spans")
               /\ UNCHANGED Spans
          ELSE /\ Spans' = StoreSpan(SketchAdd(LinkParent(Spans, span), span),
                                     WithComputed(span))
               /\ Goto(t, "add_index")
    /\ UNCHANGED <<Other, Evals, clock, call, permvars, frame, spans_lock, evals_lock, committed>>

\* _add_span: self._traces and the sorted lists.
AddIndex(t) ==
    /\ pc[t] = "add_index"
    /\ Spans' = IndexSpan(Spans, frame[t].span)
    /\ Goto(t, "add_propagate")
    /\ UNCHANGED <<Other, Evals, clock, call, permvars, frame, spans_lock, evals_lock, committed>>

\* _update_ancestors: value = span[attribute] or 0 for the i-th attribute,
\* and the call of _add_value_to_span_ancestors.
StartWalk(f, S, i) ==
    [f EXCEPT !.i = i, !.span_id = f.span.span_id, !.passed = {f.span.span_id},
              !.value = ItemOrZero(S.spans[f.span.span_id], _CUMULATIVE_ATTRIBUTES[i][1])]

\* _propagate_cumulative_values: the span's own cumulative values.
AddPropagate(t) ==
    /\ pc[t] = "add_propagate"
    /\ Spans' = PropagateFrom(Spans, frame[t].span.span_id, 1)
    /\ Local(t, StartWalk(frame[t], Spans', 1))
    /\ Goto(t, "add_walk")
    /\ UNCHANGED <<Other, Evals, clock, call, permvars, spans_lock, evals_lock, committed>>

\* One test of the while loop of _add_value_to_span_ancestors and, when it
\* passes, one run of its body.  A walk that comes back to a span it has
\* passed finds the same parents again and again: the loop never ends, and
\* the thread stays at add_diverged with the lock held.
AddWalk(t) ==
    /\ pc[t] = "add_walk"
    /\ LET f == frame[t]
           parent_span_id == NextAncestor(Spans, f.span_id)
       IN IF parent_span_id = None
          THEN /\ UNCHANGED Spans
               /\ IF f.i < Len(_CUMULATIVE_ATTRIBUTES)
                  THEN Local(t, StartWalk(f, Spans, f.i + 1)) /\ Goto(t, "add_walk")
                  ELSE UNCHANGED frame /\ Goto(t, "add_statistics")
          ELSE /\ Spans' = AddValueToParent(Spans, parent_span_id,
                                            _CUMULATIVE_ATTRIBUTES[f.i][1], f.value)
               /\ Local(t, [f EXCEPT !.span_id = parent_span_id,
                                     !.passed = @ \cup {parent_span_id}])
               /\ Goto(t, IF parent_span_id \in f.passed THEN "add_diverged" ELSE "add_walk")
    /\ UNCHANGED <<Other, Evals, clock, call, permvars, spans_lock, evals_lock, committed>>

\* _update_cached_statistics: the token total.
AddStatistics(t) ==
    /\ pc[t] = "add_statistics"
    /\ Spans' = AddTokenCount(Spans, frame[t].span)
    /\ Goto(t, "add_finish")
    /\ UNCHANGED <<Other, Evals, clock, call, permvars, frame, spans_lock, evals_lock, committed>>

\* _update_cached_statistics: num_documents, and the clock.  An exception
\* leaves the with block, which unlocks.
AddFinish(t) ==
    /\ pc[t] = "add_finish"
    /\ IF LenRaises(frame[t].span)
       THEN /\ UNCHANGED Spans
            /\ Local(t, [frame[t] EXCEPT !.failed = TRUE])
       ELSE /\ Spans' = SetLastUpdatedAt(AddNumDocuments(Spans, frame[t].span), clock)
            /\ UNCHANGED frame
    /\ Goto(t, "unlock_spans")
    /\ UNCHANGED <<Other, Evals, clock, call, permvars, spans_lock, evals_lock, committed>>

\* Project.add_eval(evaluation) is called.
CallAddEval(t, evaluation) ==
    /\ pc[t] = "idle"
    /\ Goto(t, "eval_acquire")
    /\ Local(t, [IdleFrame EXCEPT !.op = "add_eval", !.evaluation = evaluation,
                                  !.then = "returned"])
    /\ UNCHANGED <<Other, Spans, Evals, clock, call, permvars, spans_lock, evals_lock, committed>>

\* The pcs at which a thread waits for _Evals._lock, and where it goes on.
AfterEvalsLock ==
    [eval_acquire |-> "eval_add",
     ex_names_acquire |-> "ex_names",
     ex_items_acquire |-> "ex_items",
     ex_positions_acquire |-> "ex_positions"]

\* with self._lock: (of _Evals)
LockEvals(t) ==
    /\ pc[t] \in DOMAIN AfterEvalsLock
    /\ CanAcquire(evals_lock, t)
    /\ evals_lock' = Acquire(evals_lock, t)
    /\ Goto(t, AfterEvalsLock[pc[t]])
    /\ UNCHANGED <<Other, Spans, Evals, clock, call, permvars, frame, spans_lock, committed>>

\* _Evals._add
EvalAdd(t) ==
    /\ pc[t] = "eval_add"
    /\ Evals' = _add(Evals, frame[t].evaluation, clock)
    /\ Goto(t, "unlock_evals")
    /\ UNCHANGED <<Other, Spans, clock, call, permvars, frame, spans_lock, evals_lock, committed>>

UnlockEvals(t) ==
    /\ pc[t] = "unlock_evals"
    /\ evals_lock' = Release(evals_lock)
    /\ Goto(t, frame[t].then)
    /\ UNCHANGED <<Other, Spans, Evals, clock, call, permvars, frame, spans_lock, committed>>

\* The spans a call of get_trace or get_spans matches in the store S.
InWindow(args, time) ==
    /\ args.start_time = NoArg \/ args.start_time[1] <= time
    /\ args.stop_time = NoArg \/ time < args.stop_time[1]

Matching(S, f) ==
    IF f.op = "get_trace" THEN GetSet(S.traces, f.target)
    ELSE {id \in DOMAIN S.spans :
            /\ InWindow(f.args, S.spans[id].start_time)
            /\ f.args.root_spans_only => S.spans[id].parent_id = None
            /\ f.args.by_ids => id \in Range(f.args.span_ids)}

\* The spans below span_id in the child map of S, at most depth levels down.
RECURSIVE Descendants(_, _, _)
Descendants(S, span_id, depth) ==
    IF depth = 0 THEN {}
    ELSE GetSet(S.child_spans, span_id)
         \cup UNION {Descendants(S, c, depth - 1) : c \in GetSet(S.child_spans, span_id)}

\* The properties that return a field of a store: span_count, trace_count,
\* token_count_total of _Spans, and Project.last_updated_at, which reads the
\* clock of _Spans and then the clock of _Evals.
Accessors == {"span_count", "trace_count", "token_count_total", "last_updated_at"}

CallAccessor(t, name) ==
    /\ pc[t] = "idle"
    /\ Goto(t, IF name = "last_updated_at" THEN "read_spans_clock" ELSE "read_spans_field")
    /\ Local(t, [IdleFrame EXCEPT !.op = name])
    /\ UNCHANGED <<Other, Spans, Evals, clock, call, permvars, spans_lock, evals_lock, committed>>

\* len(self._spans), len(self._traces), self._token_count_total or
\* self._last_updated_at, by the accessor's name.
SpansField(name, S) ==
    CASE name = "span_count" -> Cardinality(DOMAIN S.spans)
      [] name = "trace_count" -> Cardinality(DOMAIN S.traces)
      [] name = "token_count_total" -> S.token_count_total
      [] OTHER -> S.last_updated_at

\* The accessor returns the field, or Project.last_updated_at does
\* spans_last_updated_at = self._spans.last_updated_at
ReadSpansField(t) ==
    /\ pc[t] \in {"read_spans_field", "read_spans_clock"}
    /\ Local(t, [frame[t] EXCEPT !.value = SpansField(frame[t].op, Spans)])
    /\ Goto(t, IF pc[t] = "read_spans_clock" THEN "read_evals_clock" ELSE "returned")
    /\ UNCHANGED <<Other, Spans, Evals, clock, call, permvars, spans_lock, evals_lock, committed>>

\* The span store's clock when it is set, else the other.
SpansClockOrElse(spans_last_updated_at, evals_last_updated_at) ==
    IF spans_last_updated_at # NoneTime THEN spans_last_updated_at
    ELSE evals_last_updated_at

\* Project.last_updated_at, the choice between the two clocks it has read:
\* not spans_last_updated_at or evals_last_updated_at and
\* evals_last_updated_at > spans_last_updated_at
Project_last_updated_at(spans_last_updated_at, evals_last_updated_at) ==
    IF spans_last_updated_at = NoneTime
       \/ (evals_last_updated_at # NoneTime
           /\ evals_last_updated_at > spans_last_updated_at)
    THEN evals_last_updated_at
    ELSE spans_last_updated_at

\* Project.last_updated_at: evals_last_updated_at = self._evals.last_updated_at
\* and the return of the choice between the two.
ReadEvalsClockAnd(t, recorded) ==
    /\ pc[t] = "read_evals_clock"
    /\ LET result == Project_last_updated_at(frame[t].value, Evals.last_updated_at)
       IN /\ Local(t, [frame[t] EXCEPT !.value = result])
          /\ call' = IF recorded
                     THEN [op |-> "last_updated_at", outcome |-> "returned",
                           result |-> result]
                     ELSE call
    /\ Goto(t, "returned")
    /\ UNCHANGED <<Other, Spans, Evals, clock, permvars, spans_lock, evals_lock, committed>>

ReadEvalsClock(t) == ReadEvalsClockAnd(t, FALSE)

\* The same, with what it returns kept on record.
ObserveClock(t) == ReadEvalsClockAnd(t, TRUE)

\* The operation has returned (or its iterator is exhausted); the caller
\* takes the result.
Return(t) ==
    /\ pc[t] = "returned"
    /\ Goto(t, "idle")
    /\ Local(t, IdleFrame)
    /\ UNCHANGED <<Other, Spans, Evals, clock, call, permvars, spans_lock, evals_lock, committed>>


\* Project.get_trace(trace_id) is called.
CallGetTrace(t, trace_id) ==
    /\ pc[t] = "idle"
    /\ Goto(t, "gt_acquire")
    /\ Local(t, LET f == [IdleFrame EXCEPT !.op = "get_trace", !.target = trace_id,
                                           !.then = "iterate"]
                IN [f EXCEPT !.prior = Matching(committed, f)])
    /\ UNCHANGED <<Other, Spans, Evals, clock, call, permvars, spans_lock, evals_lock, committed>>

\* What .span gives for every span of a tuple.
Views(S, spans) == [id \in Range(spans) |-> span_property(S.spans[id])]

\* get_trace: spans = tuple(trace), under the lock.
GetTraceSnapshot(t) ==
    /\ pc[t] = "gt_snapshot"
    /\ LET spans == TraceSnapshot(Spans, frame[t].target)
       IN Local(t, [frame[t] EXCEPT !.spans = spans,
                                    !.matching = Matching(Spans, frame[t]),
                                    !.at_snapshot = Views(Spans, spans)])
    /\ Goto(t, "unlock_spans")
    /\ UNCHANGED <<Other, Spans, Evals, clock, call, permvars, spans_lock, evals_lock, committed>>

\* Project.get_spans(start_time, stop_time, root_spans_only, span_ids) is called.
CallGetSpans(t, args) ==
    /\ pc[t] = "idle"
    /\ Goto(t, "gs_check")
    /\ Local(t, LET f == [IdleFrame EXCEPT !.op = "get_spans", !.args = args,
                                           !.then = "iterate"]
                IN [f EXCEPT !.prior = Matching(committed, f)])
    /\ UNCHANGED <<Other, Spans, Evals, clock, call, permvars, spans_lock, evals_lock, committed>>

\* get_spans: if not self._spans: return, and the choice of reading the
\* store's time range.
GetSpansCheck(t) ==
    /\ pc[t] = "gs_check"
    /\ Goto(t, IF DOMAIN Spans.spans = {} THEN "returned"
               ELSE IF frame[t].args.start_time = NoArg \/ frame[t].args.stop_time = NoArg
               THEN "range_acquire"
               ELSE "gs_acquire")
    /\ UNCHANGED <<Other, Spans, Evals, clock, call, permvars, frame, spans_lock, evals_lock,
                   committed>>

\* _Spans.right_open_time_range, and start_time = start_time or min_start_time,
\* stop_time = stop_time or max_stop_time.  An empty sorted list gives
\* (None, None).
RangeRead(t) ==
    /\ pc[t] = "range_read"
    /\ LET args == frame[t].args
           range == Spans_right_open_time_range(Spans)
       IN Local(t, [frame[t] EXCEPT
                !.args.start_time = IF args.start_time = NoArg THEN range[1] ELSE @,
                !.args.stop_time = IF args.stop_time = NoArg THEN range[2] ELSE @,
                !.then = "gs_acquire"])
    /\ Goto(t, "unlock_spans")
    /\ UNCHANGED <<Other, Spans, Evals, clock, call, permvars, spans_lock, evals_lock, committed>>

\* get_spans: the tuple taken under the lock.  A bound that is still None
\* cannot be compared with a start time: the call raises.
GetSpansSnapshot(t) ==
    /\ pc[t] = "gs_snapshot"
    /\ LET args == frame[t].args
       IN IF args.start_time = NoArg \/ args.stop_time = NoArg
          THEN Local(t, [frame[t] EXCEPT !.failed = TRUE, !.then = "returned"])
          ELSE LET spans == SpansSnapshot(Spans, args, args.start_time[1],
                                          args.stop_time[1])
               IN Local(t, [frame[t] EXCEPT !.spans = spans,
                                            !.matching = Matching(Spans, frame[t]),
                                            !.at_snapshot = Views(Spans, spans),
                                            !.then = "iterate"])
    /\ Goto(t, "unlock_spans")
    /\ UNCHANGED <<Other, Spans, Evals, clock, call, permvars, spans_lock, evals_lock, committed>>

\* Project.get_descendant_spans(span_id) is called.
CallGetDescendantSpans(t, span_id) ==
    /\ pc[t] = "idle"
    /\ Goto(t, "gd_acquire")
    /\ Local(t, [IdleFrame EXCEPT !.op = "get_descendant_spans", !.target = span_id,
                                  !.prior = Descendants(committed, span_id,
                                                        Cardinality(SpanIDs)),
                                  !.then = "iterate"])
    /\ UNCHANGED <<Other, Spans, Evals, clock, call, permvars, spans_lock, evals_lock, committed>>

\* A generator whose tuple is exhausted returns to the one that called it.
RECURSIVE Resume(_, _)
Resume(spans, stack) ==
    IF spans # <<>> \/ stack = <<>> THEN <<spans, stack>>
    ELSE Resume(Head(stack), Tail(stack))

\* _get_descendant_spans: spans = tuple(child_spans), under the lock.
DescendantsSnapshot(t) ==
    /\ pc[t] = "gd_snapshot"
    /\ LET r == Resume(ChildrenSnapshot(Spans, frame[t].target), frame[t].stack)
       IN Local(t, [frame[t] EXCEPT !.spans = r[1], !.stack = r[2]])
    /\ Goto(t, "unlock_spans")
    /\ UNCHANGED <<Other, Spans, Evals, clock, call, permvars, spans_lock, evals_lock, committed>>

\* for span in spans: yield span.span, outside the lock: the span's
\* computed values are read when it is yielded.  get_descendant_spans then
\* descends into the span it has yielded.
Iterate(t) ==
    /\ pc[t] = "iterate"
    /\ LET f == frame[t]
       IN IF f.spans = <<>>
          THEN UNCHANGED frame /\ Goto(t, "returned")
          ELSE LET id == Head(f.spans)
                   view == span_property(Spans.spans[id])
                   g == [f EXCEPT !.yielded = Append(@, id),
                                  !.frozen = @ /\ (id \in DOMAIN f.at_snapshot
                                                   => view = f.at_snapshot[id])]
               IN IF f.op = "get_descendant_spans"
                  THEN /\ Local(t, [g EXCEPT !.spans = <<>>, !.target = id,
                                             !.stack = <<Tail(f.spans)>> \o @])
                       /\ Goto(t, "gd_acquire")
                  ELSE /\ Local(t, [g EXCEPT !.spans = Tail(@)])
                       /\ Goto(t, "iterate")
    /\ UNCHANGED <<Other, Spans, Evals, clock, call, permvars, spans_lock, evals_lock, committed>>

\* Project.export_evaluations() is called.
CallExport(t) ==
    /\ pc[t] = "idle"
    /\ Goto(t, "ex_names_acquire")
    /\ Local(t, [IdleFrame EXCEPT !.op = "export_evaluations", !.then = "ex_each_name",
                                  !.export = [NoExport EXCEPT !.began = Evals]])
    /\ UNCHANGED <<Other, Spans, Evals, clock, call, permvars, spans_lock, evals_lock, committed>>

\* tuple(self._span_evaluations_by_name.items()) and
\* tuple(self._document_evaluations_by_name.items()), under the lock: the
\* names, each with its inner dict, which is the store's own.
ExportNames(t) ==
    /\ pc[t] = "ex_names"
    /\ LET by_name == IF frame[t].export.part = "span"
                      THEN Evals.span_evaluations_by_name
                      ELSE Evals.document_evaluations_by_name
       IN Local(t, [frame[t] EXCEPT !.export.names = Tuple(DOMAIN by_name),
                                    !.then = "ex_each_name"])
    /\ Goto(t, "unlock_evals")
    /\ UNCHANGED <<Other, Spans, Evals, clock, call, permvars, spans_lock, evals_lock, committed>>

\* for eval_name, ... in the tuple of names, outside the lock; after the
\* last name of the span evaluations the document evaluations follow, and
\* after the last name of these export_evaluations returns its list.
ExportEachName(t) ==
    /\ pc[t] = "ex_each_name"
    /\ LET x == frame[t].export
       IN IF x.names # <<>>
          THEN /\ Local(t, [frame[t] EXCEPT !.export.eval_name = Head(x.names),
                                            !.export.names = Tail(x.names),
                                            !.export.rows = <<>>])
               /\ Goto(t, "ex_items_acquire")
          ELSE IF x.part = "span"
          THEN /\ Local(t, [frame[t] EXCEPT !.export.part = "document"])
               /\ Goto(t, "ex_names_acquire")
          ELSE /\ UNCHANGED frame
               /\ Goto(t, "returned")
    /\ UNCHANGED <<Other, Spans, Evals, clock, call, permvars, spans_lock, evals_lock, committed>>

\* tuple(_span_evaluations_by_id.items()), whose rows are made from the
\* tuple, and tuple(_document_evaluations_by_id.items()), under the lock.
ExportItems(t) ==
    /\ pc[t] = "ex_items"
    /\ LET x == frame[t].export
       IN IF x.part = "span"
          THEN LET by_id == Evals.span_evaluations_by_name[x.eval_name]
                   span_ids == Tuple(DOMAIN by_id)
               IN Local(t, [frame[t] EXCEPT
                        !.export.rows =
                            [i \in DOMAIN span_ids |->
                                [span_id |-> span_ids[i], document_position |-> 0,
                                 row |-> MessageToDict(by_id[span_ids[i]].result)]],
                        !.then = "ex_frame"])
          ELSE Local(t, [frame[t] EXCEPT
                        !.export.span_ids =
                            Tuple(DOMAIN Evals.document_evaluations_by_name[x.eval_name]),
                        !.then = "ex_each_id"])
    /\ Goto(t, "unlock_evals")
    /\ UNCHANGED <<Other, Spans, Evals, clock, call, permvars, spans_lock, evals_lock, committed>>

\* for span_id, ... in the tuple of one name's span ids, outside the lock.
ExportEachId(t) ==
    /\ pc[t] = "ex_each_id"
    /\ LET x == frame[t].export
       IN IF x.span_ids # <<>>
          THEN /\ Local(t, [frame[t] EXCEPT !.export.span_id = Head(x.span_ids),
                                            !.export.span_ids = Tail(x.span_ids)])
               /\ Goto(t, "ex_positions_acquire")
          ELSE /\ UNCHANGED frame
               /\ Goto(t, "ex_frame")
    /\ UNCHANGED <<Other, Spans, Evals, clock, call, permvars, spans_lock, evals_lock, committed>>

\* sorted(_document_evaluations_by_position.items()) under the lock, and
\* the rows made from the sorted list.
ExportPositions(t) ==
    /\ pc[t] = "ex_positions"
    /\ LET x == frame[t].export
       IN Local(t, [frame[t] EXCEPT
                !.export.rows = @ \o DocumentRows(Evals, x.eval_name, <<x.span_id>>),
                !.then = "ex_each_id"])
    /\ Goto(t, "unlock_evals")
    /\ UNCHANGED <<Other, Spans, Evals, clock, call, permvars, spans_lock, evals_lock, committed>>

\* SpanEvaluations(eval_name, dataframe) or DocumentEvaluations(eval_name,
\* dataframe) is appended to the list.
ExportFrame(t) ==
    /\ pc[t] = "ex_frame"
    /\ LET x == frame[t].export
       IN Local(t, [frame[t] EXCEPT !.export.frames =
                Append(@, [kind |-> IF x.part = "span" THEN "SpanEvaluations"
                                    ELSE "DocumentEvaluations",
                           eval_name |-> x.eval_name, rows |-> x.rows])])
    /\ Goto(t, "ex_each_name")
    /\ UNCHANGED <<Other, Spans, Evals, clock, call, permvars, spans_lock, evals_lock, committed>>

ExportSteps(t) ==
    \/ ExportNames(t)
    \/ ExportEachName(t)
    \/ ExportItems(t)
    \/ ExportEachId(t)
    \/ ExportPositions(t)
    \/ ExportFrame(t)

\* p adds evaluations of spans and of documents, some of them twice with
\* different results, while q exports.
ExportEvalInputs ==
    {e \in AllEvalInputs :
        \/ e.subject_id.kind = "span_id" /\ e.name = "rel"
        \/ /\ e.subject_id.kind = "document_retrieval_id"
           /\ e.subject_id.span_id = "a"
           /\ HasField(e, "score")}

NextExport ==
    \E t \in Threads :
        \/ t = "p" /\ \E e \in ExportEvalInputs : CallAddEval(t, e)
        \/ t = "q" /\ CallExport(t)
        \/ LockEvals(t)
        \/ EvalAdd(t)
        \/ UnlockEvals(t)
        \/ Return(t)
        \/ ExportSteps(t)

SpecExport == Init /\ [][NextExport]_vars

\* Where a thread's next step reads or writes the fields of the span store
\* or of the spans in it, and where it reads or writes the evaluation store.
AccessesSpans(t) ==
    \/ pc[t] \in {"add_span", "add_index", "add_propagate", "add_walk", "add_diverged",
                  "add_statistics", "add_finish", "gt_snapshot", "range_read",
                  "gs_snapshot", "gd_snapshot",
                  "gs_check", "read_spans_field", "read_spans_clock"}
    \/ pc[t] = "iterate" /\ frame[t].spans # <<>>

AccessesEvals(t) == pc[t] \in {"eval_add", "read_evals_clock"}

\* What the threads ask for: p ingests, q reads.
ThreadCalls(t) ==
    IF t = "p"
    THEN \/ \E s \in ConcSpanInputs : CallAddSpan(t, s)
         \/ \E e \in ConcEvalInputs : CallAddEval(t, e)
    ELSE \/ \E trace_id \in TraceIDs : CallGetTrace(t, trace_id)
         \/ \E args \in ConcSpansArgs : CallGetSpans(t, args)
         \/ \E span_id \in SpanIDs : CallGetDescendantSpans(t, span_id)
         \/ \E name \in Accessors : CallAccessor(t, name)

\* The steps of add_span and add_eval, of the accessors, and of the iterators.
IngestSteps(t) ==
    \/ UnlockSpans(t)
    \/ AddStore(t)
    \/ AddIndex(t)
    \/ AddPropagate(t)
    \/ AddWalk(t)
    \/ AddStatistics(t)
    \/ AddFinish(t)
    \/ EvalAdd(t)
    \/ UnlockEvals(t)
    \/ Return(t)

AccessorSteps(t) ==
    \/ ReadSpansField(t)
    \/ ReadEvalsClock(t)

IteratorSteps(t) ==
    \/ GetTraceSnapshot(t)
    \/ GetSpansCheck(t)
    \/ RangeRead(t)
    \/ GetSpansSnapshot(t)
    \/ DescendantsSnapshot(t)
    \/ Iterate(t)

ThreadSteps(t) ==
    \/ IngestSteps(t)
    \/ AccessorSteps(t)
    \/ IteratorSteps(t)

NextConc ==
    \E t \in Threads :
        \/ ThreadCalls(t)
        \/ LockSpans(t)
        \/ LockEvals(t)
        \/ ThreadSteps(t)

SpecConc == Init /\ [][NextConc]_vars

\* Operations on spans whose parents form no cycle, under a fair scheduler:
\* both threads ingest a root span, its child and an evaluation, and q
\* reads as well.
FairSpanInputs == {s \in ConcSpanInputs : s.span_id \in {"a", "b"}}
FairEvalInputs == {e \in ConcEvalInputs : e.subject_id.kind = "span_id"}

FairCalls(t) ==
    \/ \E s \in FairSpanInputs : CallAddSpan(t, s)
    \/ \E e \in FairEvalInputs : CallAddEval(t, e)
    \/ /\ t = "q"
       /\ \/ CallGetTrace(t, "t1")
          \/ CallGetSpans(t, NoSpansArgs)
          \/ CallGetDescendantSpans(t, "a")
          \/ CallAccessor(t, "last_updated_at")

NextFair ==
    \E t \in Threads :
        \/ FairCalls(t)
        \/ LockSpans(t)
        \/ LockEvals(t)
        \/ ThreadSteps(t)

\* A thread that can take a step takes it, and so does the caller that
\* drives an iterator; a thread that waits for a lock that is free again
\* and again gets it.  A thread need not call anything.
Fairness ==
    \A t \in Threads :
        /\ WF_vars(ThreadSteps(t))
        /\ SF_vars(LockSpans(t))
        /\ SF_vars(LockEvals(t))

SpecFair == Init /\ [][NextFair]_vars /\ Fairness

\* Ingests and readings of the clock while time passes: both threads ingest
\* a root span, its child, a span whose ingest raises and an evaluation, and
\* q reads last_updated_at.
ClockSpanInputs ==
    FairSpanInputs
    \cup {s \in AllSpanInputs : s.span_id = "c" /\ s.parent_id = "b" /\ LenRaises(s)}

ClockCalls(t) ==
    \/ \E s \in ClockSpanInputs : CallAddSpan(t, s)
    \/ \E e \in FairEvalInputs : CallAddEval(t, e)
    \/ t = "q" /\ CallAccessor(t, "last_updated_at")

NextClock ==
    \/ Tick
    \/ \E t \in Threads :
        \/ ClockCalls(t)
        \/ LockSpans(t)
        \/ LockEvals(t)
        \/ IngestSteps(t)
        \/ ReadSpansField(t)
        \/ ObserveClock(t)

SpecClock == Init /\ [][NextClock]_vars

\* ------------------------------------------------------------ the claims
StoredIDs == DOMAIN Spans.spans

\* The stored spans that name id as their parent.
StoredChildren(S, id) == {c \in DOMAIN S.spans : S.spans[c].parent_id = id}

CumulativeValues(S, key) ==
    [c \in DOMAIN S.spans |-> ItemOrZero(S.spans[c], key)]

\* The cumulative equation at every stored span of S, for every cumulative key.
CumulativeCorrect(S) ==
    \A id \in DOMAIN S.spans : \A i \in DOMAIN _CUMULATIVE_ATTRIBUTES :
        LET key == _CUMULATIVE_ATTRIBUTES[i][1]
            attribute == _CUMULATIVE_ATTRIBUTES[i][2]
        IN /\ key \in DOMAIN S.spans[id].computed
           /\ S.spans[id].computed[key] =
                ItemOrZero(S.spans[id], attribute)
                + SumOver(CumulativeValues(S, key), StoredChildren(S, id))

\* C1: after every completed add(span), whatever the arrival order, every
\* stored span s and every cumulative key C with underlying key U satisfy
\* s.C = (s.U or 0) + the sum of c.C over the stored spans c whose parent is s.
C1_CumulativeCorrect == CumulativeCorrect(Spans)

\* C1's case: a chain of three stored spans whose top span has gathered both
\* descendants' token counts and an error count from below.
C1_Witness ==
    \E x, y, z \in StoredIDs :
        /\ Spans.spans[x].parent_id = None
        /\ Spans.spans[y].parent_id = x
        /\ Spans.spans[z].parent_id = y
        /\ ItemOrZero(Spans.spans[z], LLM_TOKEN_COUNT_TOTAL) > 0
        /\ ItemOrZero(Spans.spans[y], LLM_TOKEN_COUNT_TOTAL) > 0
        /\ Spans.spans[x].computed[CUMULATIVE_LLM_TOKEN_COUNT_TOTAL] >= 2
        /\ Spans.spans[x].computed[CUMULATIVE_ERROR_COUNT] >= 1

\* C3: add(span) with a span_id that is already stored, whatever the other
\* fields of the second arrival are, leaves the whole span store unchanged
\* (indices, sketch, counters, computed attributes, last_updated_at).
C3_DuplicateIgnored ==
    [][(call'.op = "add_span" /\ call'.outcome = "repeated") => Spans' = Spans]_vars

\* C3's case: a duplicate has been ignored by a store that holds two spans
\* and whose clock reading is older than the wall clock.
C3_Witness ==
    /\ call.op = "add_span"
    /\ call.outcome = "repeated"
    /\ Cardinality(StoredIDs) >= 2
    /\ Spans.last_updated_at < clock

\* C10: an add(span) that does not complete normally changes nothing.
C10_NoPartialUpdate ==
    [][(call'.op = "add_span" /\ call'.outcome = "raised") => Spans' = Spans]_vars

\* What C2 compares of a Project: the counts, every span's computed
\* attributes, num_documents, and the membership of every index.
DictKeys2(d) == [k \in DOMAIN d |-> DOMAIN d[k]]
DictKeys3(d) == [k \in DOMAIN d |-> DictKeys2(d[k])]

Observables(P) ==
    [span_count |-> Cardinality(DOMAIN P.spans.spans),
     trace_count |-> Cardinality(DOMAIN P.spans.traces),
     token_count_total |-> P.spans.token_count_total,
     computed |-> [id \in DOMAIN P.spans.spans |-> P.spans.spans[id].computed],
     num_documents |-> P.spans.num_documents,
     parent_span_ids |-> P.spans.parent_span_ids,
     child_spans |-> P.spans.child_spans,
     traces |-> P.spans.traces,
     by_start_time |-> SeqToBag(P.spans.start_time_sorted_spans),
     roots_by_start_time |-> SeqToBag(P.spans.start_time_sorted_root_spans),
     roots_by_latency |-> SeqToBag(P.spans.latency_sorted_root_spans),
     sketch |-> P.spans.root_span_latency_ms_sketch,
     by_span |-> DictKeys2(P.evals.evaluations_by_span_id),
     span_by_name |-> DictKeys2(P.evals.span_evaluations_by_name),
     by_trace |-> DictKeys2(P.evals.evaluations_by_trace_id),
     trace_by_name |-> DictKeys2(P.evals.trace_evaluations_by_name),
     by_document |-> DictKeys3(P.evals.document_evaluations_by_span_id),
     doc_by_name |-> DictKeys3(P.evals.document_evaluations_by_name),
     labels_by_name |-> P.evals.span_evaluation_labels]

OrderIndependent ==
    Observables([spans |-> Spans, evals |-> Evals]) =
        Observables(IngestBag([spans |-> Spans_init, evals |-> Evals_init],
                              SeqToBag(fed), clock))

\* No two of the inputs are different records of the same span id.
SpanIdsUnique(seq) ==
    \A i, j \in DOMAIN seq :
        (seq[i].kind = "span" /\ seq[j].kind = "span"
         /\ seq[i].span.span_id = seq[j].span.span_id) => seq[i] = seq[j]

\* C2 as stated: any two orders of the same inputs leave the same counts,
\* computed attributes, num_documents and index membership (every order is
\* compared with one fixed order of the same multiset).
C2_AnyMultiset == OrderIndependent

\* C2, amended: the same, for inputs in which the records of one span id
\* are all equal.
C2_OrderIndependent == SpanIdsUnique(fed) => OrderIndependent

\* C2's case: a child, its parent and a repeated arrival have been ingested
\* child first, and the parent has gathered the child's tokens.
C2_Witness ==
    /\ Len(fed) = 3 /\ todo = <<>>
    /\ SpanIdsUnique(fed)
    /\ fed[1].kind = "span" /\ fed[2].kind = "span"
    /\ fed[1].span.parent_id = fed[2].span.span_id
    /\ fed[3] = fed[1]
    /\ Spans.spans[fed[2].span.span_id].computed[CUMULATIVE_LLM_TOKEN_COUNT_TOTAL] >= 2

Readers == {"get_trace", "get_spans", "get_descendant_spans"}

\* C4: add(span) terminates for every input span, also for one that names
\* itself as its parent or closes a cycle of parents: no ancestor walk runs
\* on for ever with the lock held.
C4_AddTerminates == \A t \in Threads : pc[t] # "add_diverged"

\* The add(span) that holds the lock, if any, and the store it will leave
\* when it completes.
Inflight == {t \in Threads : frame[t].op = "add_span" /\ spans_lock.owner = t}

PostStore ==
    IF \E t \in Inflight : AddReturns(committed, frame[t].span)
    THEN _add_span(committed, frame[CHOOSE t \in Inflight : TRUE].span, clock)
    ELSE committed

\* The value is what the reader gets from the store before the ingest in
\* flight or from the store after it, Field being what it reads of a store.
\* An ingest whose ancestor walk never ends leaves no store after it: what
\* is read during it is not judged.
BeforeOrAfter(value, Field(_)) ==
    \/ \E t \in Inflight : ~AddReturns(committed, frame[t].span)
    \/ value = Field(committed)
    \/ value = Field(PostStore)

\* C5: every value a reader obtains, a counter or clock from an accessor or
\* the attributes of a span an iterator yields, is the value before or the
\* value after the ingest in flight, never one of a store that ingest has
\* half updated.
C5_ReadsAtomic ==
    [][\A t \in Threads :
        /\ pc[t] \in {"read_spans_field", "read_spans_clock"} /\ pc'[t] # pc[t]
             => LET Field(S) == SpansField(frame[t].op, S)
                IN BeforeOrAfter(frame'[t].value, Field)
        /\ pc[t] = "iterate" /\ frame[t].spans # <<>> /\ frame'[t] # frame[t]
             => LET id == Head(frame[t].spans)
                    View(S) == span_property(IF id \in DOMAIN S.spans THEN S.spans[id]
                                             ELSE NoSpan)
                IN BeforeOrAfter(View(Spans), View)]_vars

Count(seq, x) == Cardinality({i \in DOMAIN seq : seq[i] = x})

\* C7, as stated: an iteration that runs while spans are added never fails
\* and yields every matching span ingested before it started exactly once.
C7_PriorExactlyOnce ==
    \A t \in Threads :
        frame[t].op \in Readers
            => /\ ~frame[t].failed
               /\ pc[t] = "returned"
                    => \A id \in frame[t].prior : Count(frame[t].yielded, id) = 1

\* How often a call asks for a span: get_spans by span_ids as often as the
\* ids name it, every other call once.
Asked(f, id) ==
    IF f.op = "get_spans" /\ f.args.by_ids THEN Count(f.args.span_ids, id) ELSE 1

\* C7, amended: an iteration that runs while spans are added never fails and
\* yields every matching span ingested before it started, once for each
\* time the call asks for it.
C7_PriorAsAsked ==
    \A t \in Threads :
        frame[t].op \in Readers
            => /\ ~frame[t].failed
               /\ pc[t] = "returned"
                    => \A id \in frame[t].prior :
                           Count(frame[t].yielded, id) = Asked(frame[t], id)

\* An iteration has ended that yielded spans ingested before it started and
\* a span ingested while it ran.
C7_Witness ==
    \E t \in Threads :
        /\ frame[t].op \in Readers
        /\ pc[t] = "returned"
        /\ frame[t].prior # {}
        /\ Range(frame[t].yielded) \ frame[t].prior # {}

\* C8: a thread reads or writes a store's state only while it holds that
\* store's lock.
C8_AccessUnderLock ==
    \A t \in Threads :
        /\ AccessesSpans(t) => spans_lock.owner = t
        /\ AccessesEvals(t) => evals_lock.owner = t

NoBothLocks == \A t \in Threads : ~(spans_lock.owner = t /\ evals_lock.owner = t)

\* C9: no thread holds the lock of the span store and the lock of the
\* evaluation store at once, and on spans whose parents form no cycle every
\* operation a thread has started comes to its end.
C9_NoDeadlock ==
    /\ []NoBothLocks
    /\ \A t \in Threads : (pc[t] # "idle") ~> (pc[t] = "idle")

\* A thread waits for the span store's lock, which the other thread holds
\* in the middle of an ingest, while it has itself ingested before.
C9_Witness ==
    \E t, u \in Threads :
        /\ t # u
        /\ pc[t] = "add_acquire"
        /\ spans_lock.owner = u
        /\ pc[u] = "add_walk"
        /\ Evals.last_updated_at # NoneTime

\* C11: while the wall clock does not go back, the clock of the span store,
\* the clock of the evaluation store and what Project.last_updated_at
\* returns never decrease, whatever the interleaving of the ingests, and an
\* ingest that is accepted sets its store's clock to the wall clock's
\* reading, which is at least every earlier one.
C11_ClocksNeverDecrease ==
    [][/\ Spans'.last_updated_at >= Spans.last_updated_at
       /\ Evals'.last_updated_at >= Evals.last_updated_at
       /\ call'.result >= call.result
       /\ \A t \in Threads :
            /\ pc[t] = "add_finish" /\ pc'[t] = "unlock_spans" /\ ~frame'[t].failed
                 => Spans'.last_updated_at = clock
            /\ pc[t] = "eval_add" /\ pc'[t] = "unlock_evals"
                 => Evals'.last_updated_at = clock]_vars

\* Project.last_updated_at has returned the span store's clock, set after
\* the wall clock moved on and after the evaluation store's clock.
C11_Witness ==
    /\ call.op = "last_updated_at"
    /\ Evals.last_updated_at # NoneTime
    /\ Spans.last_updated_at > Evals.last_updated_at
    /\ call.result = Spans.last_updated_at

\* The more recent of two clocks, None being absent.
MoreRecent(s, e) ==
    CASE s = NoneTime /\ e = NoneTime -> NoneTime
      [] s = NoneTime /\ e # NoneTime -> e
      [] s # NoneTime /\ e = NoneTime -> s
      [] OTHER -> IF s >= e THEN s ELSE e

\* C12: Project.last_updated_at returns the more recent of the clock it has
\* read from the span store and the clock of the evaluation store, the
\* other when one is None, and None when both are.
C12_MoreRecentClock ==
    [][\A t \in Threads :
        pc[t] = "read_evals_clock" /\ pc'[t] = "returned"
            => frame'[t].value = MoreRecent(frame[t].value, Evals.last_updated_at)]_vars

\* Project.last_updated_at has returned the evaluation store's clock, the
\* more recent of two clocks that are both set.
C12_Witness ==
    /\ call.op = "last_updated_at"
    /\ Spans.last_updated_at # NoneTime
    /\ Evals.last_updated_at > Spans.last_updated_at
    /\ call.result = Evals.last_updated_at

\* The stored spans that have no parent.
StoredRoots(S) == {id \in DOMAIN S.spans : S.spans[id].parent_id = None}

\* The multiset of the latency_ms of the stored root spans.
RootLatencies(S) ==
    LET values == {S.spans[id].computed[LATENCY_MS] : id \in StoredRoots(S)}
    IN [v \in values |->
            Cardinality({id \in StoredRoots(S) : S.spans[id].computed[LATENCY_MS] = v})]

\* C13: the multiset of values fed to the root latency sketch is the
\* multiset of the latency_ms of the accepted root spans; spans with a
\* parent and repeated span ids that are ignored add nothing to it.
C13_SketchContainment ==
    Spans.root_span_latency_ms_sketch = RootLatencies(Spans)

\* Two root spans of one latency are in the sketch, a span with a parent is
\* stored, and the last add was of a span id already stored.
C13_Witness ==
    /\ call.outcome = "repeated"
    /\ \E v \in DOMAIN Spans.root_span_latency_ms_sketch :
            Spans.root_span_latency_ms_sketch[v] = 2
    /\ DOMAIN Spans.spans # StoredRoots(Spans)

\* C14: right_open_time_range returns (None, None) exactly when no span has
\* been accepted; otherwise it returns (lo, hi) with lo <= start_time < hi
\* for every accepted span.
C14_RangeContainsStarts ==
    LET range == Spans_right_open_time_range(Spans)
    IN IF DOMAIN Spans.spans = {} THEN range = <<NoArg, NoArg>>
       ELSE /\ range[1] # NoArg
            /\ range[2] # NoArg
            /\ \A id \in DOMAIN Spans.spans :
                    /\ range[1][1] <= Spans.spans[id].start_time
                    /\ Spans.spans[id].start_time < range[2][1]

\* Spans of different start times are stored, the later one first in the
\* order of arrival, and the range runs from the earliest start.
C14_Witness ==
    /\ \E i, j \in DOMAIN Spans.spans :
            Spans.spans[i].start_time < Spans.spans[j].start_time
    /\ call.outcome = "stored"
    /\ Spans_right_open_time_range(Spans)[1] = <<0>>

\* The bounds and the span_ids asked of get_spans.
Times == 0..(MaxTime + 1)
MaxIds == 2
IdSeqs == UNION {[1..n -> SpanIDs \cup {"z"}] : n \in 0..MaxIds}

RangeArgs(start, stop, root_only) ==
    [NoSpansArgs EXCEPT !.start_time = <<start>>, !.stop_time = <<stop>>,
                        !.root_spans_only = root_only]
IdsArgs(start, stop, root_only, ids) ==
    [RangeArgs(start, stop, root_only) EXCEPT !.by_ids = TRUE, !.span_ids = ids]

\* The stored spans that start in [start, stop), the roots only if asked.
StoredWithin(S, start, stop, root_only) ==
    {id \in DOMAIN S.spans :
        /\ start <= S.spans[id].start_time
        /\ S.spans[id].start_time < stop
        /\ root_only => S.spans[id].parent_id = None}

\* C15: get_spans(start, stop, root_only) without span_ids yields exactly
\* the accepted spans (the roots only when root_only) whose start_time is
\* in [start, stop), each once, in non-increasing order of start_time; a
\* span that starts at stop is left out, one that starts at start is in.
C15_RangeQuery ==
    \A start, stop \in Times, root_only \in BOOLEAN :
        LET spans == get_spans(Spans, RangeArgs(start, stop, root_only))
        IN /\ Range(spans) = StoredWithin(Spans, start, stop, root_only)
           /\ Cardinality(Range(spans)) = Len(spans)
           /\ \A i, j \in DOMAIN spans :
                i < j => Spans.spans[spans[i]].start_time
                            >= Spans.spans[spans[j]].start_time

\* Three spans are stored, one starting at 0 and one with a parent starting
\* at MaxTime: the query of [0, MaxTime) yields the first and not the
\* second, the query of [0, MaxTime + 1) for roots leaves the second out.
C15_Witness ==
    /\ Cardinality(DOMAIN Spans.spans) = 3
    /\ \E i, j \in DOMAIN Spans.spans :
        /\ Spans.spans[i].start_time = 0
        /\ Spans.spans[j].start_time = MaxTime
        /\ Spans.spans[j].parent_id # None
        /\ i \in Range(get_spans(Spans, RangeArgs(0, MaxTime, FALSE)))
        /\ j \notin Range(get_spans(Spans, RangeArgs(0, MaxTime, FALSE)))
        /\ j \in Range(get_spans(Spans, RangeArgs(0, MaxTime + 1, FALSE)))
        /\ j \notin Range(get_spans(Spans, RangeArgs(0, MaxTime + 1, TRUE)))

\* The ids of the sequence, in its order, that are stored, start in
\* [start, stop) and, if asked, have no parent.
RECURSIVE RequestedInOrder(_, _, _, _, _)
RequestedInOrder(S, ids, start, stop, root_only) ==
    IF ids = <<>> THEN <<>>
    ELSE (IF Head(ids) \in StoredWithin(S, start, stop, root_only)
          THEN <<Head(ids)>> ELSE <<>>)
         \o RequestedInOrder(S, Tail(ids), start, stop, root_only)

\* C16: get_spans with span_ids yields, in the order of the ids given,
\* exactly the ids that are stored, start in [start, stop) and, when
\* root_only, have no parent; ids never ingested are skipped without error.
C16_ByIdQuery ==
    \A start, stop \in Times, root_only \in BOOLEAN, ids \in IdSeqs :
        get_spans(Spans, IdsArgs(start, stop, root_only, ids))
            = RequestedInOrder(Spans, ids, start, stop, root_only)

\* With a at 0 and c at MaxTime stored and b not ingested, the ids c, a come
\* back in that order, the id b is skipped, and the window leaves c out.
C16_Witness ==
    /\ DOMAIN Spans.spans = {"a", "c"}
    /\ Spans.spans["a"].start_time = 0
    /\ Spans.spans["c"].start_time = MaxTime
    /\ get_spans(Spans, IdsArgs(0, MaxTime + 1, FALSE, <<"c", "a">>)) = <<"c", "a">>
    /\ get_spans(Spans, IdsArgs(0, MaxTime + 1, FALSE, <<"b", "a">>)) = <<"a">>
    /\ get_spans(Spans, IdsArgs(0, MaxTime, FALSE, <<"c", "a">>)) = <<"a">>

\* C17: latency_ms is (end_time - start_time) in milliseconds; it is set
\* when the span is ingested and never changes afterwards.
C17_LatencyFixed ==
    [][\A id \in DOMAIN Spans'.spans :
        LET span == Spans'.spans[id]
        IN /\ span.computed[LATENCY_MS] = 1000 * (span.end_time - span.start_time)
           /\ id \in DOMAIN Spans.spans
                => span.computed[LATENCY_MS] = Spans.spans[id].computed[LATENCY_MS]]_vars

\* A span of one second keeps its 1000 ms while the ingest of a child has
\* raised its cumulative token count above its own.
C17_Witness ==
    \E id \in DOMAIN Spans.spans :
        /\ Spans.spans[id].computed[LATENCY_MS] = 1000
        /\ Spans.spans[id].computed[CUMULATIVE_LLM_TOKEN_COUNT_TOTAL]
                > ItemOrZero(Spans.spans[id], LLM_TOKEN_COUNT_TOTAL)

\* C18: error_count is 1 exactly when the span's status is ERROR and 0
\* otherwise, UNSET and OK included; the cumulative_error_count of a span
\* with no children equals its error_count.
C18_ErrorCount ==
    \A id \in DOMAIN Spans.spans :
        LET span == Spans.spans[id]
        IN /\ span.computed[ERROR_COUNT] \in {0, 1}
           /\ span.computed[ERROR_COUNT] = 1 <=> span.status_code = "ERROR"
           /\ GetSet(Spans.child_spans, id) = {}
                => span.computed[CUMULATIVE_ERROR_COUNT] = span.computed[ERROR_COUNT]

\* Spans of the three statuses are stored by adds that returned, two of
\* them without children.
C18_Witness ==
    /\ call.outcome = "stored"
    /\ {Spans.spans[id].status_code : id \in DOMAIN Spans.spans} = {"OK", "ERROR", "UNSET"}
    /\ \A id \in DOMAIN Spans.spans : ~LenRaises(Spans.spans[id])
    /\ Cardinality({id \in DOMAIN Spans.spans : GetSet(Spans.child_spans, id) = {}}) = 2

\* The last of the evaluations fed so far that has the subject and the
\* name, or None.
LastAdded(subject_id, name) ==
    LET at == {i \in DOMAIN fed : /\ fed[i].kind = "eval"
                                  /\ fed[i].evaluation.subject_id = subject_id
                                  /\ fed[i].evaluation.name = name}
    IN IF at = {} THEN NoEvaluation
       ELSE fed[CHOOSE i \in at : \A j \in at : j <= i].evaluation

EvalNames == {"rel", "doc", "qa"}
Positions == 0..1

\* The document evaluation stored at the keys in a three-level index.
Stored3(d, k1, k2, k3) ==
    IF k1 \in DOMAIN d /\ k2 \in DOMAIN d[k1] /\ k3 \in DOMAIN d[k1][k2]
    THEN d[k1][k2][k3]
    ELSE NoEvaluation

\* The keys under which span and document evaluations are stored and fed.
StoredSpanKeys ==
    {k \in SpanIDs \X EvalNames :
        get_span_evaluation(Evals, k[1], k[2]) # NoEvaluation}
StoredDocumentKeys ==
    {k \in SpanIDs \X EvalNames \X Positions :
        Stored3(Evals.document_evaluations_by_span_id, k[1], k[2], k[3]) # NoEvaluation}
FedKeys(kind) ==
    {<<fed[i].evaluation.subject_id, fed[i].evaluation.name>> :
        i \in {j \in DOMAIN fed : /\ fed[j].kind = "eval"
                                  /\ fed[j].evaluation.subject_id.kind = kind}}

\* C19: evaluations are last-writer-wins per key: get_span_evaluation
\* returns the span evaluation added last for (span_id, name), the document
\* evaluation stored for (span_id, name, position) is the one added last,
\* and writing over a key leaves the number of stored keys as it was.
C19_LastWriterWins ==
    /\ \A span_id \in SpanIDs, name \in EvalNames :
        /\ get_span_evaluation(Evals, span_id, name)
                = LastAdded(SpanSubject(span_id), name)
        /\ \A position \in Positions :
            /\ Stored3(Evals.document_evaluations_by_span_id, span_id, name, position)
                    = LastAdded(DocumentSubject(span_id, position), name)
            /\ Stored3(Evals.document_evaluations_by_name, name, span_id, position)
                    = LastAdded(DocumentSubject(span_id, position), name)
    /\ Cardinality(StoredSpanKeys) = Cardinality(FedKeys("span_id"))
    /\ Cardinality(StoredDocumentKeys) = Cardinality(FedKeys("document_retrieval_id"))

\* Two span evaluations of one key and two document evaluations of one key
\* were added; the second of each is stored, under one key each.
C19_Witness ==
    /\ Len(fed) = 4
    /\ \E i, j, k, l \in DOMAIN fed :
        /\ i < j
        /\ k < l
        /\ fed[i].evaluation # fed[j].evaluation
        /\ fed[k].evaluation # fed[l].evaluation
        /\ fed[i].evaluation.subject_id = SpanSubject("a")
        /\ fed[j].evaluation.subject_id = SpanSubject("a")
        /\ fed[i].evaluation.name = fed[j].evaluation.name
        /\ fed[k].evaluation.subject_id = DocumentSubject("a", 1)
        /\ fed[l].evaluation.subject_id = DocumentSubject("a", 1)
        /\ get_span_evaluation(Evals, "a", fed[j].evaluation.name) = fed[j].evaluation
        /\ Stored3(Evals.document_evaluations_by_span_id, "a", "doc", 1) = fed[l].evaluation
    /\ Cardinality(StoredSpanKeys) = 1
    /\ Cardinality(StoredDocumentKeys) = 1

\* The labels of the span evaluations of the name that were ever added.
LabelsAdded(name) ==
    {fed[i].evaluation.result["label"] :
        i \in {j \in DOMAIN fed : /\ fed[j].kind = "eval"
                                  /\ fed[j].evaluation.subject_id.kind = "span_id"
                                  /\ fed[j].evaluation.name = name
                                  /\ HasField(fed[j].evaluation, "label")}}

\* C20: get_span_evaluation_labels(name) is the set of the labels carried
\* by the span evaluations of that name ever added: a label stays after its
\* evaluation is written over, and evaluations without a label, trace
\* evaluations and document evaluations add nothing.
C20_LabelsAccumulate ==
    \A name \in EvalNames :
        get_span_evaluation_labels(Evals, name) = LabelsAdded(name)

\* The evaluation labelled yes was written over by the one labelled no, a
\* labelled trace evaluation and a span evaluation without a label were
\* added, and the labels of the name are yes and no.
C20_Witness ==
    /\ get_span_evaluation(Evals, "a", "rel").result = ("label" :> "no")
    /\ get_span_evaluation(Evals, "b", "rel") # NoEvaluation
    /\ "rel" \in DOMAIN Evals.trace_evaluations_by_name
    /\ HasField(Evals.trace_evaluations_by_name["rel"]["t1"], "label")
    /\ get_span_evaluation_labels(Evals, "rel") = {"yes", "no"}

\* The lengths asked of get_document_evaluation_scores.
MaxDocuments == 2

\* C21: get_document_evaluation_scores(span_id, name, n) returns a list of
\* length exactly n; entry i is the score of the document evaluation stored
\* for (span_id, name, position i) when there is one and it has a score, and
\* NaN otherwise; stored positions >= n are ignored without an error and
\* without growing the list.
C21_ScoresVector ==
    \A span_id \in SpanIDs, name \in EvalNames, n \in 0..MaxDocuments :
        LET list == get_document_evaluation_scores(Evals, span_id, name, n)
        IN /\ ~list.raised
           /\ Len(list.scores) = n
           /\ \A i \in 0..(n - 1) :
                LET stored == LastAdded(DocumentSubject(span_id, i), name)
                IN list.scores[i + 1] =
                        IF stored # NoEvaluation /\ HasField(stored, "score")
                        THEN <<stored.result["score"]>>
                        ELSE NaN

\* Document evaluations are stored at positions 0 and 1, the second written
\* over by one without a score: the vector of length 2 holds the score and
\* NaN, the vector of length 1 leaves the stored position 1 out.
C21_Witness ==
    /\ Stored3(Evals.document_evaluations_by_span_id, "a", "doc", 1) # NoEvaluation
    /\ get_document_evaluation_scores(Evals, "a", "doc", 2).scores = <<(<<2>>), NaN>>
    /\ get_document_evaluation_scores(Evals, "a", "doc", 1).scores = <<(<<2>>)>>
    /\ get_document_evaluation_scores(Evals, "a", "doc", 0).scores = <<>>

\* The indexes of the evaluation store, and what every read of it returns
\* for every key.
EvalIndexes(E) ==
    <<E.trace_evaluations_by_name, E.evaluations_by_trace_id,
      E.span_evaluations_by_name, E.evaluations_by_span_id,
      E.span_evaluation_labels, E.document_evaluations_by_span_id,
      E.document_evaluations_by_name, E.document_evaluation_order>>

AskedSpanIDs == SpanIDs \cup {None, "z"}
AskedNames == EvalNames \cup {"none"}

EvalReads(E) ==
    [span_evaluation |->
        [k \in AskedSpanIDs \X AskedNames |-> get_span_evaluation(E, k[1], k[2])],
     span_evaluation_names |-> get_span_evaluation_names(E),
     document_evaluation_names |->
        [span_id \in AskedSpanIDs |-> get_document_evaluation_names(E, span_id)],
     span_evaluation_labels |->
        [name \in AskedNames |-> get_span_evaluation_labels(E, name)],
     span_evaluation_span_ids |->
        [name \in AskedNames |-> get_span_evaluation_span_ids(E, name)],
     evaluations_by_span_id |->
        [span_id \in AskedSpanIDs |-> get_evaluations_by_span_id(E, span_id)],
     document_evaluation_span_ids |->
        [name \in AskedNames |-> get_document_evaluation_span_ids(E, name)],
     document_evaluations_by_span_id |->
        [span_id \in AskedSpanIDs |-> get_document_evaluations_by_span_id(E, span_id)],
     document_evaluation_scores |->
        [k \in AskedSpanIDs \X AskedNames \X (0..MaxDocuments) |->
            get_document_evaluation_scores(E, k[1], k[2], k[3])],
     export_evaluations |-> export_evaluations(E)]

AskedTraceIDs == TraceIDs \cup {"t9"}
NoScores(n) == [raised |-> FALSE, scores |-> [i \in 1..n |-> NaN]]

\* C23: a read asked about a key that is absent does not raise and returns
\* an empty result: get_trace and get_descendant_spans yield nothing,
\* get_num_documents returns 0, get_span_evaluation returns None, and the
\* reads of lists and tuples of evaluations return empty collections, in
\* every reachable state, the empty store included.
C23_AbsentKeyReads ==
    /\ \A trace_id \in AskedTraceIDs :
        trace_id \notin DOMAIN Spans.traces => get_trace(Spans, trace_id) = <<>>
    /\ \A span_id \in AskedSpanIDs :
        /\ span_id \notin DOMAIN Spans.child_spans
                => get_descendant_spans(Spans, span_id) = <<>>
        /\ span_id \notin DOMAIN Spans.num_documents
                => get_num_documents(Spans, span_id) = 0
        /\ span_id \notin DOMAIN Evals.evaluations_by_span_id
                => /\ get_evaluations_by_span_id(Evals, span_id) = {}
                   /\ \A name \in AskedNames :
                        get_span_evaluation(Evals, span_id, name) = NoEvaluation
        /\ span_id \notin DOMAIN Evals.document_evaluations_by_span_id
                => /\ get_document_evaluations_by_span_id(Evals, span_id) = {}
                   /\ span_id # None
                        => get_document_evaluation_names(Evals, span_id) = {}
                   /\ \A name \in AskedNames, n \in 0..MaxDocuments :
                        get_document_evaluation_scores(Evals, span_id, name, n) = NoScores(n)
    /\ \A name \in AskedNames :
        /\ name \notin DOMAIN Evals.span_evaluations_by_name
                => /\ get_span_evaluation_span_ids(Evals, name) = {}
                   /\ \A span_id \in AskedSpanIDs :
                        get_span_evaluation(Evals, span_id, name) = NoEvaluation
        /\ name \notin DOMAIN Evals.span_evaluation_labels
                => get_span_evaluation_labels(Evals, name) = {}
        /\ name \notin DOMAIN Evals.document_evaluations_by_name
                => /\ get_document_evaluation_span_ids(Evals, name) = {}
                   /\ \A span_id \in AskedSpanIDs, n \in 0..MaxDocuments :
                        get_document_evaluation_scores(Evals, span_id, name, n) = NoScores(n)

\* A child of a, a span evaluation of a and a document evaluation of a are
\* stored; the reads about a return them, the reads about b and about the
\* trace t2, which are absent, return nothing.
C23_Witness ==
    /\ todo = <<>>
    /\ get_descendant_spans(Spans, "a") # <<>>
    /\ get_trace(Spans, "t1") # <<>>
    /\ "t2" \notin DOMAIN Spans.traces
    /\ "b" \notin DOMAIN Spans.child_spans
    /\ get_document_evaluation_names(Evals, "a") # {}
    /\ "b" \notin DOMAIN Evals.document_evaluations_by_span_id
    /\ get_span_evaluation(Evals, "a", "rel") # NoEvaluation
    /\ get_span_evaluation(Evals, "b", "rel") = NoEvaluation

\* The names and the rows the evaluations fed so far give to the frames.
FedNames(kind) == {k[2] : k \in FedKeys(kind)}
FedSpanRows(name) ==
    {span_id \in SpanIDs : LastAdded(SpanSubject(span_id), name) # NoEvaluation}
FedDocumentRows(name) ==
    {k \in SpanIDs \X Positions :
        LastAdded(DocumentSubject(k[1], k[2]), name) # NoEvaluation}

\* C24: in a quiescent state export_evaluations returns one frame for
\* every name of a span evaluation, with one row for every span_id that has
\* a span evaluation of the name, and after them one frame for every name
\* of a document evaluation, with one row for every stored (span_id,
\* document_position), the rows of one span in ascending document_position;
\* trace evaluations give no frame.
C24_ExportFrames ==
    LET frames == export_evaluations(Evals)
        span_names == FedNames("span_id")
        document_names == FedNames("document_retrieval_id")
        span_frames == 1..Cardinality(span_names)
        document_frames == (Cardinality(span_names) + 1)..Len(frames)
    IN /\ Len(frames) = Cardinality(span_names) + Cardinality(document_names)
       /\ {frames[i].eval_name : i \in span_frames} = span_names
       /\ {frames[i].eval_name : i \in document_frames} = document_names
       /\ \A i \in span_frames :
            LET rows == frames[i].rows
            IN /\ frames[i].kind = "SpanEvaluations"
               /\ {rows[r].span_id : r \in DOMAIN rows} = FedSpanRows(frames[i].eval_name)
               /\ Len(rows) = Cardinality(FedSpanRows(frames[i].eval_name))
       /\ \A i \in document_frames :
            LET rows == frames[i].rows
            IN /\ frames[i].kind = "DocumentEvaluations"
               /\ {<<rows[r].span_id, rows[r].document_position>> : r \in DOMAIN rows}
                    = FedDocumentRows(frames[i].eval_name)
               /\ Len(rows) = Cardinality(FedDocumentRows(frames[i].eval_name))
               /\ \A r, s \in DOMAIN rows :
                    r < s /\ rows[r].span_id = rows[s].span_id
                        => rows[r].document_position < rows[s].document_position

\* A span evaluation, a trace evaluation and document evaluations of one
\* span at position 1 and then at position 0 were added: the export is one
\* frame of one row followed by one frame of two rows.
C24_Witness ==
    /\ Len(fed) = 4
    /\ \E i, j \in DOMAIN fed :
        /\ i < j
        /\ fed[i].evaluation.subject_id = DocumentSubject("a", 1)
        /\ fed[j].evaluation.subject_id = DocumentSubject("a", 0)
    /\ \E i \in DOMAIN fed : fed[i].evaluation.subject_id.kind = "trace_id"
    /\ Len(export_evaluations(Evals)) = 2
    /\ Len(export_evaluations(Evals)[1].rows) = 1
    /\ Len(export_evaluations(Evals)[2].rows) = 2

\* The keys written that carry the computed prefix.
PrefixedItemKeys == {ERROR_COUNT, LATENCY_RANK}

\* C25: a write through the setter of a span with a key that does not carry
\* the computed prefix is rejected with an error and leaves the span's
\* computed values and ingested attributes as they were; the writes with a
\* key that carries the prefix are the only ones that change a span, and
\* they change its computed values only.
C25_SetterRejects ==
    [][\A span_id \in SpanIDs, key \in ItemKeys, value \in ItemValues :
        SetSpanItem(span_id, key, value) =>
            IF key \in PrefixedItemKeys
            THEN /\ call'.outcome = "returned"
                 /\ Spans'.spans[span_id].computed
                        = Put(Spans.spans[span_id].computed, key, value)
                 /\ [Spans'.spans[span_id] EXCEPT !.computed = EmptyDict]
                        = [Spans.spans[span_id] EXCEPT !.computed = EmptyDict]
            ELSE /\ call'.outcome = "raised"
                 /\ Spans' = Spans]_vars

\* A write with a key without the prefix was rejected, after a write with a
\* prefixed key that is in the computed values of a stored span that has
\* ingested attributes.
C25_Witness ==
    /\ call.op = "setitem"
    /\ call.outcome = "raised"
    /\ \E span_id \in DOMAIN Spans.spans :
        /\ LATENCY_RANK \in DOMAIN Spans.spans[span_id].computed
        /\ Spans.spans[span_id].computed[LATENCY_RANK] = 5
        /\ Spans.spans[span_id].attributes # EmptyDict


\* What the reads of a Project return.
ProjectReads(project) ==
    Observables([spans |-> _spans_of(project), evals |-> _evals_of(project)])

\* C26: Projects are independent: an add_span or add_eval on one Project
\* leaves every read on the other Project unchanged, the cumulative
\* attributes of its spans included, also when the same span was ingested
\* into both.
C26_ProjectsIndependent ==
    [][\A project \in ProjectNames :
            call'.outcome = project
            => ProjectReads(other_than(project))' = ProjectReads(other_than(project))]_vars

\* Every key of the dict d is a key of e, with at least the members it has.
KeysAndMembersKept(d, e) ==
    /\ DOMAIN d \subseteq DOMAIN e
    /\ \A k \in DOMAIN d : d[k] \subseteq e[k]

\* Every entry of the sorted list is kept, as often as it was there.
EntriesKept(list, later) == SeqToBag(list) \sqsubseteq SeqToBag(later)

\* C27: across the ingests of spans with non-negative token counts, every
\* cumulative computed attribute of every stored span never decreases, and
\* no span, trace or index entry is ever removed: the number of spans and
\* the number of traces never decrease.
C27_GrowsOnly ==
    [][/\ \A span_id \in DOMAIN Spans.spans :
            /\ span_id \in DOMAIN Spans'.spans
            /\ \A key \in CumulativeKeys :
                    ItemOrZero(Spans'.spans[span_id], key)
                        >= ItemOrZero(Spans.spans[span_id], key)
       /\ KeysAndMembersKept(Spans.traces, Spans'.traces)
       /\ KeysAndMembersKept(Spans.child_spans, Spans'.child_spans)
       /\ \A span_id \in DOMAIN Spans.parent_span_ids :
            /\ span_id \in DOMAIN Spans'.parent_span_ids
            /\ Spans'.parent_span_ids[span_id] = Spans.parent_span_ids[span_id]
       /\ DOMAIN Spans.num_documents \subseteq DOMAIN Spans'.num_documents
       /\ EntriesKept(Spans.start_time_sorted_spans, Spans'.start_time_sorted_spans)
       /\ EntriesKept(Spans.start_time_sorted_root_spans,
                      Spans'.start_time_sorted_root_spans)
       /\ EntriesKept(Spans.latency_sorted_root_spans, Spans'.latency_sorted_root_spans)
       /\ Cardinality(DOMAIN Spans'.spans) >= Cardinality(DOMAIN Spans.spans)
       /\ Cardinality(DOMAIN Spans'.traces) >= Cardinality(DOMAIN Spans.traces)]_vars

\* A span with a token count of its own has come under a stored parent that
\* has one too, and under that parent's parent: both cumulative totals grew.
C27_Witness ==
    /\ call.op = "add_span" /\ call.outcome = "stored"
    /\ StoredIDs = SpanIDs
    /\ \E x, y, z \in SpanIDs :
            /\ Spans.spans[z].parent_id = y /\ Spans.spans[y].parent_id = x
            /\ Spans.spans[x].parent_id = None
            /\ \A w \in {x, y, z} : ItemOrZero(Spans.spans[w], LLM_TOKEN_COUNT_TOTAL) > 0
            /\ ItemOrZero(Spans.spans[x], CUMULATIVE_LLM_TOKEN_COUNT_TOTAL)
                    > ItemOrZero(Spans.spans[y], CUMULATIVE_LLM_TOKEN_COUNT_TOTAL)
            /\ ItemOrZero(Spans.spans[y], CUMULATIVE_LLM_TOKEN_COUNT_TOTAL)
                    > ItemOrZero(Spans.spans[z], CUMULATIVE_LLM_TOKEN_COUNT_TOTAL)
            /\ Cardinality(DOMAIN Spans.traces) >= 2

\* The pcs of _propagate_cumulative_values and of the ancestor walk.
AncestorPropagation == {"add_propagate", "add_walk", "add_diverged"}

\* A thread is at the with self._lock: of a level of _get_descendant_spans
\* below the first one.
AtRecursiveLevel(t) ==
    /\ pc[t] = "gd_acquire"
    /\ frame[t].op = "get_descendant_spans"
    /\ frame[t].yielded # <<>>

\* C28 as stated: during the ancestor propagation of add(span) the
\* ingesting thread holds the span store's lock a second time, and the
\* recursive descendant traversal comes to acquire the lock while the same
\* thread already holds it.
C28_ReentrantAcquire ==
    \A t \in Threads :
        /\ pc[t] \in AncestorPropagation
                => spans_lock.owner = t /\ spans_lock.count >= 2
        /\ AtRecursiveLevel(t) => spans_lock.owner = t

\* C28: during add(span) the ingesting thread holds the span store's lock
\* once, ancestor propagation included, and no thread that comes to a
\* with self._lock: of the span store holds that lock already, the
\* recursive levels of the descendant traversal included: the lock is
\* never acquired by the thread that holds it.
C28_OneAcquisition ==
    /\ spans_lock.count <= 1
    /\ \A t \in Threads :
            /\ pc[t] \in AncestorPropagation => spans_lock = [owner |-> t, count |-> 1]
            /\ pc[t] \in DOMAIN AfterSpansLock => spans_lock.owner # t

\* p has walked from the span it ingests to an ancestor and holds the lock,
\* once; q has yielded a descendant and waits at the lock of the next level.
C28_Witness ==
    /\ pc["p"] = "add_walk"
    /\ Cardinality(frame["p"].passed) >= 2
    /\ spans_lock = [owner |-> "p", count |-> 1]
    /\ AtRecursiveLevel("q")

\* The spans that the recorded parents lead to from span_id, in at most
\* depth steps.
RECURSIVE AncestorsOf(_, _, _)
AncestorsOf(S, span_id, depth) ==
    IF depth = 0 \/ span_id \notin DOMAIN S.parent_span_ids THEN {}
    ELSE {S.parent_span_ids[span_id]}
         \cup AncestorsOf(S, S.parent_span_ids[span_id], depth - 1)

\* The parent relation is a forest: no span is among its own ancestors.
IsForest(S) ==
    \A span_id \in DOMAIN S.parent_span_ids :
        span_id \notin AncestorsOf(S, span_id, Cardinality(SpanIDs))

\* The accepted spans below span_id.
AcceptedBelow(S, span_id) ==
    {x \in DOMAIN S.spans : span_id \in AncestorsOf(S, x, Cardinality(SpanIDs))}

\* Every span of the sequence is there once, and is followed at once by
\* the accepted spans below it and by nothing else before them.
PreOrder(S, yielded) ==
    \A i \in DOMAIN yielded :
        /\ \A j \in DOMAIN yielded : yielded[j] = yielded[i] => j = i
        /\ LET below == AcceptedBelow(S, yielded[i])
           IN /\ i + Cardinality(below) <= Len(yielded)
              /\ {yielded[j] : j \in (i + 1)..(i + Cardinality(below))} = below

\* C29: in a store at rest whose parent relation is a forest,
\* get_descendant_spans(span_id) yields exactly the accepted spans that
\* children_of leads to from span_id in one or more steps, each once, every
\* span before the spans below it (depth first), never span_id itself, and
\* it comes to an end: no call is cut short by the bound on the nesting.
C29_DescendantsPreOrder ==
    IsForest(Spans) =>
        \A span_id \in AskedSpanIDs \ {None} :
            LET yielded == get_descendant_spans(Spans, span_id)
            IN /\ Range(yielded) = AcceptedBelow(Spans, span_id)
               /\ PreOrder(Spans, yielded)
               /\ span_id \notin Range(yielded)
               /\ yielded = _get_descendant_spans(Spans, span_id, MaxDepth + 1)

\* A span, its child and the child's child are stored: the traversal from
\* the first yields the other two, the child first, the traversal from the
\* child yields the third alone, and the one from the third yields nothing.
C29_Witness ==
    \E x, y, z \in SpanIDs :
        /\ StoredIDs = {x, y, z}
        /\ Spans.spans[x].parent_id = None
        /\ Spans.spans[y].parent_id = x
        /\ Spans.spans[z].parent_id = y
        /\ call.op = "add_span" /\ call.outcome = "stored"
        /\ get_descendant_spans(Spans, x) = <<y, z>>
        /\ get_descendant_spans(Spans, y) = <<z>>
        /\ get_descendant_spans(Spans, z) = <<>>

\* The sum of the llm.token_count.total attributes of the stored spans,
\* a span without the attribute counting 0.
RECURSIVE IngestedTokens(_, _)
IngestedTokens(S, ids) ==
    IF ids = {} THEN 0
    ELSE LET span_id == CHOOSE x \in ids : TRUE
         IN ItemOrZero(S.spans[span_id], LLM_TOKEN_COUNT_TOTAL)
            + IngestedTokens(S, ids \ {span_id})

\* C30: in every reachable state token_count_total is the sum of the
\* ingested llm.token_count.total values of the accepted spans, a missing
\* value counting 0 and each accepted span counting once: a span ingested
\* again adds nothing.
C30_TokenCountTotal ==
    Spans.token_count_total = IngestedTokens(Spans, DOMAIN Spans.spans)

\* Three spans are stored, one of them without a token count and one with
\* a token count under a parent that has one, and one of them has been
\* ingested again.
C30_Witness ==
    /\ call.op = "add_span" /\ call.outcome = "repeated"
    /\ StoredIDs = SpanIDs
    /\ Spans.token_count_total = 2
    /\ \E x \in StoredIDs : suffix_key(LLM_TOKEN_COUNT_TOTAL) \notin DOMAIN Spans.spans[x].attributes
    /\ \E x, y \in StoredIDs :
            /\ Spans.spans[y].parent_id = x
            /\ ItemOrZero(Spans.spans[y], LLM_TOKEN_COUNT_TOTAL) > 0
            /\ ItemOrZero(Spans.spans[x], CUMULATIVE_LLM_TOKEN_COUNT_TOTAL) = 2

\* The length of the retrieval.documents attribute of the accepted span
\* span_id, 0 for an unknown span and for a span without such a list.
RetrievedDocuments(S, span_id) ==
    IF /\ span_id \in DOMAIN S.spans
       /\ RETRIEVAL_DOCUMENTS \in DOMAIN S.spans[span_id].attributes
       /\ S.spans[span_id].attributes[RETRIEVAL_DOCUMENTS].type = "list"
    THEN S.spans[span_id].attributes[RETRIEVAL_DOCUMENTS].len
    ELSE 0

\* C31: in every reachable state get_num_documents(span_id) is the length
\* of the retrieval.documents attribute of the accepted span with that id,
\* and 0 when the span is unknown or has no such attribute; the entry of a
\* span is written at most once, so a repeated arrival of the same span_id
\* never increases it.
C31_NumDocuments ==
    /\ [](\A span_id \in AskedSpanIDs \ {None} :
            get_num_documents(Spans, span_id) = RetrievedDocuments(Spans, span_id))
    /\ [][\A span_id \in DOMAIN Spans.num_documents :
            /\ span_id \in DOMAIN Spans'.num_documents
            /\ Spans'.num_documents[span_id] = Spans.num_documents[span_id]]_vars

\* A span with retrieved documents, a span without the attribute and the
\* span whose attribute is no list are stored, and the first has arrived
\* again.
C31_Witness ==
    /\ call.op = "add_span" /\ call.outcome = "repeated"
    /\ \E x, y, z \in StoredIDs :
            /\ get_num_documents(Spans, x) > 0
            /\ RETRIEVAL_DOCUMENTS \notin DOMAIN Spans.spans[y].attributes
            /\ LenRaises(Spans.spans[z])
            /\ get_num_documents(Spans, y) = 0 /\ get_num_documents(Spans, z) = 0

\* The place in the sequence of inputs at which span_id first arrived.
FirstIngested(inputs, span_id) ==
    CHOOSE i \in DOMAIN inputs :
        /\ inputs[i].kind = "span" /\ inputs[i].span.span_id = span_id
        /\ \A j \in 1..(i - 1) :
                ~(inputs[j].kind = "span" /\ inputs[j].span.span_id = span_id)

\* The calls of get_spans without span_ids: with and without bounds, for
\* all spans and for the roots.
TimeOrderArgs ==
    {[NoSpansArgs EXCEPT !.root_spans_only = root_only] : root_only \in BOOLEAN}
    \cup {RangeArgs(start, stop, root_only) :
            start, stop \in Times, root_only \in BOOLEAN}

\* x comes before y in the sequence.
Before(spans, x, y) ==
    \E i, j \in DOMAIN spans : i < j /\ spans[i] = x /\ spans[j] = y

\* C32: get_spans yields the spans with the same start_time in an order
\* that their order of ingestion alone determines, the span ingested later
\* first, and two spans that a call yields in one order are yielded in that
\* order by every later call that yields both.
C32_StableTies ==
    /\ [](\A args \in TimeOrderArgs :
            LET spans == get_spans(Spans, args)
            IN \A i, j \in DOMAIN spans :
                (i < j /\ Spans.spans[spans[i]].start_time
                            = Spans.spans[spans[j]].start_time)
                => FirstIngested(fed, spans[i]) > FirstIngested(fed, spans[j]))
    /\ [][\A args \in TimeOrderArgs : \A x, y \in DOMAIN Spans.spans :
            (Before(get_spans(Spans, args), x, y)
             /\ {x, y} \subseteq Range(get_spans(Spans, args)'))
            => Before(get_spans(Spans, args)', x, y)]_vars

\* Two spans with the same start_time have been ingested, the second
\* between two arrivals of the first, and get_spans yields the second
\* before the first.
C32_Witness ==
    /\ todo = <<>> /\ Len(fed) = MaxInputs
    /\ \E x, y \in SpanIDs :
            /\ x # y
            /\ fed[1].kind = "span" /\ fed[1].span.span_id = x
            /\ fed[2].kind = "span" /\ fed[2].span.span_id = y
            /\ fed[3].kind = "span" /\ fed[3].span.span_id = x
            /\ fed[1].span.start_time = fed[2].span.start_time
            /\ get_spans(Spans, NoSpansArgs) = <<y, x>>

\* The next step of the thread iterates a map of the evaluation store.
IteratesEvals(t) == pc[t] \in {"ex_names", "ex_items", "ex_positions"}

\* No two rows of the frame have the same row key.
NoDuplicateRowKey(rows) ==
    \A i, j \in DOMAIN rows :
        (rows[i].span_id = rows[j].span_id
         /\ rows[i].document_position = rows[j].document_position) => i = j

\* The results that were added under a key of span evaluations or of
\* document evaluations.
VersionsOf(kind, eval_name, span_id, document_position) ==
    {MessageToDict(e.result) : e \in
        {e \in ExportEvalInputs :
            /\ e.subject_id.kind = kind /\ e.name = eval_name
            /\ e.subject_id.span_id = span_id
            /\ e.subject_id.document_position = document_position}}

\* Every evaluation of the store E is in the frames, under its name and
\* its row key, in one of its versions.
Exported(E, frames) ==
    /\ \A eval_name \in DOMAIN E.span_evaluations_by_name :
        \A span_id \in DOMAIN E.span_evaluations_by_name[eval_name] :
            \E k \in DOMAIN frames :
                /\ frames[k].kind = "SpanEvaluations"
                /\ frames[k].eval_name = eval_name
                /\ \E r \in DOMAIN frames[k].rows :
                    /\ frames[k].rows[r].span_id = span_id
                    /\ frames[k].rows[r].row \in VersionsOf("span_id", eval_name, span_id, 0)
    /\ \A eval_name \in DOMAIN E.document_evaluations_by_name :
        \A span_id \in DOMAIN E.document_evaluations_by_name[eval_name] :
        \A position \in DOMAIN E.document_evaluations_by_name[eval_name][span_id] :
            \E k \in DOMAIN frames :
                /\ frames[k].kind = "DocumentEvaluations"
                /\ frames[k].eval_name = eval_name
                /\ \E r \in DOMAIN frames[k].rows :
                    /\ frames[k].rows[r].span_id = span_id
                    /\ frames[k].rows[r].document_position = position
                    /\ frames[k].rows[r].row
                            \in VersionsOf("document_retrieval_id", eval_name, span_id, position)

\* C33: export_evaluations that runs while evaluations are added iterates
\* a map of the store only with the store's lock held, and no add is at its
\* write then; no exported frame has two rows with the same row key; and
\* every evaluation that was stored when the export began is in the export
\* that returns, in the version it had then or in a newer one.
C33_ExportUnderLock ==
    \A t \in Threads :
        /\ IteratesEvals(t) =>
                /\ evals_lock.owner = t
                /\ \A u \in Threads \ {t} : pc[u] # "eval_add"
        /\ NoDuplicateRowKey(frame[t].export.rows)
        /\ \A k \in DOMAIN frame[t].export.frames :
                NoDuplicateRowKey(frame[t].export.frames[k].rows)
        /\ (frame[t].op = "export_evaluations" /\ pc[t] = "returned")
                => Exported(frame[t].export.began, frame[t].export.frames)

\* An export that began with a span evaluation and a document evaluation
\* stored returns while p waits to add: the span evaluation has been
\* written over during the export and is exported in its newer version,
\* and an evaluation added during the export is in the export as well.
C33_Witness ==
    /\ pc["q"] = "returned" /\ frame["q"].op = "export_evaluations"
    /\ pc["p"] = "eval_acquire"
    /\ LET x == frame["q"].export
       IN /\ DOMAIN x.began.span_evaluations_by_name = {"rel"}
          /\ DOMAIN x.began.span_evaluations_by_name["rel"] = {"a"}
          /\ DOMAIN x.began.document_evaluations_by_name = {"doc"}
          /\ Len(x.frames) = 2
          /\ Len(x.frames[1].rows) = 2
          /\ \E r \in DOMAIN x.frames[1].rows :
                /\ x.frames[1].rows[r].span_id = "a"
                /\ x.frames[1].rows[r].row
                        # MessageToDict(x.began.span_evaluations_by_name["rel"]["a"].result)
          /\ Len(x.frames[2].rows) = 2

\* The list holds exactly the span ids of the set, each once, in
\* non-decreasing order of their keys.
SortedListOf(list, ids, keyOf) ==
    /\ Range(list) = ids
    /\ Len(list) = Cardinality(ids)
    /\ \A i, j \in DOMAIN list : i < j => keyOf[list[i]] <= keyOf[list[j]]

\* The accepted spans without a parent.
AcceptedRoots(S) == {id \in DOMAIN S.spans : S.spans[id].parent_id = None}

\* C34: after every completed add(span) the indices agree with the stored
\* spans: the list by start_time holds exactly the stored spans, each once
\* and sorted; the two lists of roots hold exactly the stored spans without
\* a parent, sorted by start_time and by latency_ms; each span is in the
\* trace set of its own trace_id and of no other; the parent is recorded
\* exactly for the stored spans that have one; and the children recorded
\* for p are exactly the stored spans whose parent is p.
C34_IndicesAgree ==
    /\ SortedListOf(Spans.start_time_sorted_spans, DOMAIN Spans.spans, StartTimes(Spans))
    /\ SortedListOf(Spans.start_time_sorted_root_spans, AcceptedRoots(Spans),
                    StartTimes(Spans))
    /\ SortedListOf(Spans.latency_sorted_root_spans, AcceptedRoots(Spans),
                    Latencies(Spans))
    /\ \A trace_id \in DOMAIN Spans.traces \cup AskedTraceIDs :
            GetSet(Spans.traces, trace_id)
                = {id \in DOMAIN Spans.spans : Spans.spans[id].trace_id = trace_id}
    /\ DOMAIN Spans.parent_span_ids = DOMAIN Spans.spans \ AcceptedRoots(Spans)
    /\ \A id \in DOMAIN Spans.parent_span_ids :
            Spans.parent_span_ids[id] = Spans.spans[id].parent_id
    /\ \A p \in (DOMAIN Spans.child_spans \cup AskedSpanIDs) \ {None} :
            GetSet(Spans.child_spans, p)
                = {id \in DOMAIN Spans.spans : Spans.spans[id].parent_id = p}

\* Three spans of two traces are stored, two of them roots with different
\* latencies and the third the child of one of them and the first in the
\* list by start_time; the last add was of a span id that is stored.
C34_Witness ==
    /\ call.op = "add_span" /\ call.outcome = "repeated"
    /\ StoredIDs = SpanIDs
    /\ Cardinality(DOMAIN Spans.traces) = 2
    /\ Len(Spans.latency_sorted_root_spans) = 2
    /\ Latencies(Spans)[Spans.latency_sorted_root_spans[1]]
            < Latencies(Spans)[Spans.latency_sorted_root_spans[2]]
    /\ \E id \in StoredIDs :
            /\ Spans.spans[id].parent_id \in AcceptedRoots(Spans)
            /\ Spans.start_time_sorted_spans[1] = id

\* Every entry d[x][y] is the entry e[y][x].
Transposed2(d, e) ==
    \A x \in DOMAIN d : \A y \in DOMAIN d[x] :
        y \in DOMAIN e /\ x \in DOMAIN e[y] /\ e[y][x] = d[x][y]

\* Every entry d[x][y][p] is the entry e[y][x][p].
Transposed3(d, e) ==
    \A x \in DOMAIN d : \A y \in DOMAIN d[x] : \A p \in DOMAIN d[x][y] :
        /\ y \in DOMAIN e /\ x \in DOMAIN e[y] /\ p \in DOMAIN e[y][x]
        /\ e[y][x][p] = d[x][y][p]

\* C35: in every reachable state the two directions of each evaluation
\* index are inverse to each other, for span, trace and document
\* evaluations; hence a span is among get_span_evaluation_span_ids(name)
\* exactly when get_span_evaluation(span, name) is not None, and a name is
\* among get_document_evaluation_names(span) exactly when the span is among
\* get_document_evaluation_span_ids(name).
C35_IndexesInverse ==
    /\ Transposed2(Evals.evaluations_by_span_id, Evals.span_evaluations_by_name)
    /\ Transposed2(Evals.span_evaluations_by_name, Evals.evaluations_by_span_id)
    /\ Transposed2(Evals.evaluations_by_trace_id, Evals.trace_evaluations_by_name)
    /\ Transposed2(Evals.trace_evaluations_by_name, Evals.evaluations_by_trace_id)
    /\ Transposed3(Evals.document_evaluations_by_span_id, Evals.document_evaluations_by_name)
    /\ Transposed3(Evals.document_evaluations_by_name, Evals.document_evaluations_by_span_id)
    /\ \A span_id \in AskedSpanIDs \ {None}, name \in AskedNames :
        /\ span_id \in get_span_evaluation_span_ids(Evals, name)
                <=> get_span_evaluation(Evals, span_id, name) # NoEvaluation
        /\ name \in get_document_evaluation_names(Evals, span_id)
                <=> span_id \in get_document_evaluation_span_ids(Evals, name)

\* A span evaluation written over by a second one, a trace evaluation and
\* a document evaluation are stored.
C35_Witness ==
    /\ call.op = "add_eval"
    /\ get_span_evaluation(Evals, "a", "rel").result = ("label" :> "no")
    /\ \E i \in DOMAIN fed :
            fed[i].evaluation = Evaluation("rel", SpanSubject("a"),
                                           ("label" :> "yes") @@ ("score" :> 1))
    /\ "rel" \in DOMAIN Evals.trace_evaluations_by_name
    /\ "a" \in get_document_evaluation_span_ids(Evals, "doc")

\* C36: an add(evaluation) that discards its input because the subject is
\* missing leaves the evaluation store's last_updated_at unchanged, and
\* with it Project.last_updated_at.
C36_DiscardKeepsClock ==
    [][(/\ fed' # fed
        /\ fed'[Len(fed')].evaluation.subject_id.kind = None)
            => /\ Evals'.last_updated_at = Evals.last_updated_at
               /\ Project_last_updated_at(Spans'.last_updated_at, Evals'.last_updated_at)
                    = Project_last_updated_at(Spans.last_updated_at,
                                              Evals.last_updated_at)]_vars

\* The accepted spans whose parent is not stored: the roots and the orphans.
RootsAndOrphans(S) ==
    {x \in DOMAIN S.spans : S.spans[x].parent_id \notin DOMAIN S.spans}

\* The sum of the cumulative token totals of the spans ids.
RECURSIVE CumulativeTokens(_, _)
CumulativeTokens(S, ids) ==
    IF ids = {} THEN 0
    ELSE LET span_id == CHOOSE x \in ids : TRUE
         IN ItemOrZero(S.spans[span_id], CUMULATIVE_LLM_TOKEN_COUNT_TOTAL)
            + CumulativeTokens(S, ids \ {span_id})

\* C37: after every completed add(span), when the parent relation is a
\* forest, the cumulative token total of each accepted span is its own token
\* total plus the token totals of the accepted spans below it through
\* accepted spans, each counted once, and the cumulative totals of the
\* accepted spans whose parent is not stored add up to token_count_total.
C37_CumulativeTokenTotals ==
    IsForest(Spans) =>
        /\ \A span_id \in DOMAIN Spans.spans :
                ItemOrZero(Spans.spans[span_id], CUMULATIVE_LLM_TOKEN_COUNT_TOTAL)
                    = ItemOrZero(Spans.spans[span_id], LLM_TOKEN_COUNT_TOTAL)
                      + IngestedTokens(Spans, AcceptedBelow(Spans, span_id))
        /\ CumulativeTokens(Spans, RootsAndOrphans(Spans)) = Spans.token_count_total

\* Two spans are stored, an orphan, whose parent is not stored, and its
\* child with a token count of 1: the orphan's cumulative total is 2, and
\* so is token_count_total.
C37_Witness ==
    /\ call.op = "add_span" /\ call.outcome = "stored"
    /\ IsForest(Spans)
    /\ Spans.token_count_total = 2
    /\ \E x, y, z \in SpanIDs :
            /\ StoredIDs = {x, y}
            /\ Spans.spans[x].parent_id = z
            /\ Spans.spans[y].parent_id = x
            /\ ItemOrZero(Spans.spans[y], LLM_TOKEN_COUNT_TOTAL) = 1
            /\ ItemOrZero(Spans.spans[x], CUMULATIVE_LLM_TOKEN_COUNT_TOTAL) = 2

\* ------------------------------------------------- the reads of a Project
\* The dict after d[k] on a defaultdict: a key that is missing is created
\* with the value of the default factory.
after_getitem(d, k, default) ==
    IF k \in DOMAIN d THEN d ELSE Put(d, k, default)

\* The dict after d.get(k): get never calls the default factory.
after_get(d, k, default) == d

\* The dict after d.get(k) for every k of keys.
RECURSIVE after_gets(_, _, _)
after_gets(d, keys, default) ==
    IF keys = {} THEN d
    ELSE LET k == CHOOSE x \in keys : TRUE
         IN after_gets(after_get(d, k, default), keys \ {k}, default)

SpanReadOps ==
    {"get_trace", "get_spans", "get_num_documents", "get_descendant_spans",
     "span_count", "trace_count", "token_count_total", "right_open_time_range",
     "last_updated_at"}

EvalReadOps ==
    {"get_span_evaluation", "get_span_evaluation_names",
     "get_document_evaluation_names", "get_span_evaluation_labels",
     "get_span_evaluation_span_ids", "get_evaluations_by_span_id",
     "get_document_evaluation_span_ids", "get_document_evaluations_by_span_id",
     "get_document_evaluation_scores", "export_evaluations"}

ReadOps == SpanReadOps \cup EvalReadOps

\* The reads that take a span_id or a trace_id, and the ones that take a name.
ReadsByID ==
    {"get_trace", "get_num_documents", "get_descendant_spans", "get_span_evaluation",
     "get_document_evaluation_names", "get_evaluations_by_span_id",
     "get_document_evaluations_by_span_id", "get_document_evaluation_scores"}
ReadsByName ==
    {"get_span_evaluation", "get_span_evaluation_labels", "get_span_evaluation_span_ids",
     "get_document_evaluation_span_ids", "get_document_evaluation_scores"}

\* The span store after a read: get_trace looks trace_id up in _traces,
\* get_num_documents looks span_id up in _num_documents,
\* _get_descendant_spans looks up in _child_spans the span_id and every span
\* it yields; get_spans looks its span_ids up in _spans, a plain dict, and
\* the properties look nothing up.
SpansAfterRead(S, op, id) ==
    CASE op = "get_trace" -> [S EXCEPT !.traces = after_get(@, id, {})]
      [] op = "get_num_documents" ->
            [S EXCEPT !.num_documents = after_get(@, id, 0)]
      [] op = "get_descendant_spans" ->
            [S EXCEPT !.child_spans =
                after_gets(@, {id} \cup Range(get_descendant_spans(S, id)), {})]
      [] OTHER -> S

\* The evaluation store after a read: the index each read looks its
\* argument up in; get_document_evaluation_scores looks the name up in the
\* span's entry as well; get_span_evaluation_names, export_evaluations
\* and get_document_evaluation_names(None) iterate and look nothing up.
EvalsAfterRead(E, op, id, name) ==
    CASE op \in {"get_span_evaluation", "get_evaluations_by_span_id"} ->
            [E EXCEPT !.evaluations_by_span_id = after_get(@, id, EmptyDict)]
      [] op \in {"get_document_evaluation_names", "get_document_evaluations_by_span_id"}
         /\ id # None ->
            [E EXCEPT !.document_evaluations_by_span_id = after_get(@, id, EmptyDict)]
      [] op = "get_document_evaluation_scores" ->
            LET E1 == [E EXCEPT !.document_evaluations_by_span_id =
                                    after_get(@, id, EmptyDict)]
            IN IF \/ id \notin DOMAIN E1.document_evaluations_by_span_id
                  \/ DOMAIN E1.document_evaluations_by_span_id[id] = {}
               THEN E1
               ELSE [E1 EXCEPT !.document_evaluations_by_span_id[id] =
                                    after_get(@, name, EmptyDict)]
      [] op = "get_span_evaluation_labels" ->
            [E EXCEPT !.span_evaluation_labels = after_get(@, name, {})]
      [] op = "get_span_evaluation_span_ids" ->
            [E EXCEPT !.span_evaluations_by_name = after_get(@, name, EmptyDict)]
      [] op = "get_document_evaluation_span_ids" ->
            [E EXCEPT !.document_evaluations_by_name = after_get(@, name, EmptyDict)]
      [] OTHER -> E

\* The read looks up a key that is in no entry of the index it reads.
LooksUpAbsent(S, E, op, id, name) ==
    \/ op = "get_trace" /\ id \notin DOMAIN S.traces
    \/ op = "get_num_documents" /\ id \notin DOMAIN S.num_documents
    \/ op = "get_descendant_spans" /\ id \notin DOMAIN S.child_spans
    \/ op \in {"get_span_evaluation", "get_evaluations_by_span_id"}
        /\ id \notin DOMAIN E.evaluations_by_span_id
    \/ op \in {"get_document_evaluation_names", "get_document_evaluations_by_span_id",
                "get_document_evaluation_scores"}
        /\ id # None /\ id \notin DOMAIN E.document_evaluations_by_span_id
    \/ op = "get_span_evaluation_labels" /\ name \notin DOMAIN E.span_evaluation_labels
    \/ op = "get_span_evaluation_span_ids"
        /\ name \notin DOMAIN E.span_evaluations_by_name
    \/ op = "get_document_evaluation_span_ids"
        /\ name \notin DOMAIN E.document_evaluations_by_name

\* A read of the Project, run to its end by one caller; the outcome tells
\* whether the key it looked up was absent.
Read(op, id, name) ==
    /\ op \notin ReadsByID => id = None
    /\ op \notin ReadsByName => name = "none"
    /\ Spans' = (IF op \in SpanReadOps THEN SpansAfterRead(Spans, op, id) ELSE Spans)
    /\ Evals' = (IF op \in EvalReadOps THEN EvalsAfterRead(Evals, op, id, name)
                 ELSE Evals)
    /\ call' = [op |-> op,
                outcome |-> IF LooksUpAbsent(Spans, Evals, op, id, name) THEN "absent"
                            ELSE "returned",
                result |-> call.result]
    /\ UNCHANGED <<Other, clock, permvars, threadvars>>

\* The evaluations added between the reads, one of a span and one of a
\* document (no read returns the evaluation of a trace), and the keys the
\* reads ask for: stored ones, and ones that are never stored.
ReadEvalInputs ==
    {e \in EvalInputs : e.subject_id.kind \in {"span_id", "document_retrieval_id"}
                        /\ HasField(e, "score")}
ReadIDs == {"a", "z", None, "t1", "t9"}
ReadNames == {"rel", "none"}

NextReads ==
    \/ \E s \in ItemSpanInputs : AddSpan(s)
    \/ \E e \in ReadEvalInputs : AddEval(e)
    \/ \E op \in ReadOps, id \in ReadIDs, name \in ReadNames : Read(op, id, name)

SpecReads == Init /\ [][NextReads]_vars

\* C38: no read of the Project changes the state of either store: a lookup
\* of an absent span_id, trace_id or evaluation name creates no entry in
\* any index, so span_count, trace_count, get_span_evaluation_names,
\* get_document_evaluation_names and export_evaluations return after a read
\* what they returned before it.
C38_ReadsChangeNothing ==
    [][(call' # call /\ call'.op \in ReadOps)
        => /\ Spans' = Spans
           /\ Evals' = Evals
           /\ Cardinality(DOMAIN Spans'.spans) = Cardinality(DOMAIN Spans.spans)
           /\ Cardinality(DOMAIN Spans'.traces) = Cardinality(DOMAIN Spans.traces)
           /\ get_span_evaluation_names(Evals') = get_span_evaluation_names(Evals)
           /\ \A span_id \in AskedSpanIDs :
                get_document_evaluation_names(Evals', span_id)
                    = get_document_evaluation_names(Evals, span_id)
           /\ export_evaluations(Evals') = export_evaluations(Evals)]_vars

\* A span and evaluations of spans and of documents are stored, and the
\* last call was a read of the labels of a name that is in no entry of the
\* label index; it is still in none.
C38_Witness ==
    /\ call.op = "get_span_evaluation_labels" /\ call.outcome = "absent"
    /\ StoredIDs # {}
    /\ Evals.span_evaluation_labels # EmptyDict
    /\ Evals.document_evaluations_by_name # EmptyDict
    /\ DOMAIN Evals.span_evaluation_labels = {"rel"}

\* ------------------------------------------- the two stores of a Project
\* Spans and evaluations added to one Project in any order: an evaluation
\* of a span, one of a document, and two of a trace, one of them with a
\* label.
StoreEvalInputs ==
    {e \in EvalInputs : e.subject_id.kind # None /\ HasField(e, "score")}
    \cup {Evaluation("rel", TraceSubject("t1"), ("label" :> "tr"))}

NextStores ==
    \/ \E s \in ItemSpanInputs : AddSpan(s)
    \/ \E e \in StoreEvalInputs : AddEval(e)
    \/ Tick

SpecStores == Init /\ [][NextStores]_vars

\* What the reads of the span store return.
SpanReads(S) ==
    [span_count |-> Cardinality(DOMAIN S.spans),
     trace_count |-> Cardinality(DOMAIN S.traces),
     token_count_total |-> S.token_count_total,
     right_open_time_range |-> Spans_right_open_time_range(S),
     spans |-> get_spans(S, NoSpansArgs),
     root_spans |-> get_spans(S, [NoSpansArgs EXCEPT !.root_spans_only = TRUE]),
     trace |-> [trace_id \in AskedTraceIDs |-> get_trace(S, trace_id)],
     num_documents |-> [span_id \in AskedSpanIDs |-> get_num_documents(S, span_id)],
     descendant_spans |->
        [span_id \in AskedSpanIDs |-> get_descendant_spans(S, span_id)],
     computed |-> [span_id \in DOMAIN S.spans |-> S.spans[span_id].computed]]

\* C39: adding a trace-subject evaluation changes the result of no read of
\* the evaluation store (span evaluations, document evaluations, labels,
\* export_evaluations) and of no read of the span store: it is stored in the
\* trace indices only; no add(evaluation) of any kind changes a read of the
\* span store, and no add(span) changes a read of the evaluation store.
C39_TraceEvaluationUnseen ==
    [][/\ (fed' # fed /\ fed'[Len(fed')].evaluation.subject_id.kind = "trace_id")
            => /\ EvalReads(Evals') = EvalReads(Evals)
               /\ Evals'.evaluations_by_trace_id # Evals.evaluations_by_trace_id
                  \/ fed'[Len(fed')] \in Range(fed)
       /\ fed' # fed => SpanReads(Spans') = SpanReads(Spans)
       /\ (call' # call /\ call'.op = "add_span")
            => EvalReads(Evals') = EvalReads(Evals)]_vars

\* A span and a span evaluation named rel are stored, and the last call
\* added the trace evaluation named rel that carries a label: it is in the
\* trace indices, and the labels of rel do not have its label.
C39_Witness ==
    /\ call.op = "add_eval"
    /\ Len(fed) > 1
    /\ fed[Len(fed)].evaluation = Evaluation("rel", TraceSubject("t1"), ("label" :> "tr"))
    /\ StoredIDs # {}
    /\ "t1" \in DOMAIN Evals.evaluations_by_trace_id
    /\ "rel" \in DOMAIN Evals.trace_evaluations_by_name
    /\ get_span_evaluation_labels(Evals, "rel") = {"yes"}

\* The sequence holds every span of ids once, latest start first.
EachOnceLatestFirst(S, spans, ids) ==
    /\ Range(spans) = ids
    /\ Len(spans) = Cardinality(ids)
    /\ \A i, j \in DOMAIN spans :
            i < j => S.spans[spans[i]].start_time >= S.spans[spans[j]].start_time

\* C40: in a store at rest that is not empty, get_spans() without
\* start_time, stop_time and span_ids yields every accepted span once in
\* non-increasing order of start_time, and with root_spans_only every
\* accepted root: the window taken from right_open_time_range leaves out
\* neither the earliest nor the latest span.
C40_DefaultWindowYieldsAll ==
    DOMAIN Spans.spans # {} =>
        /\ EachOnceLatestFirst(Spans, get_spans(Spans, NoSpansArgs), DOMAIN Spans.spans)
        /\ EachOnceLatestFirst(Spans,
                               get_spans(Spans, [NoSpansArgs EXCEPT !.root_spans_only = TRUE]),
                               AcceptedRoots(Spans))

\* Three spans are stored, a root and a span with a parent among them, the
\* earliest starting at 0 and the latest at MaxTime: get_spans() yields the
\* three, a latest one first and an earliest one last.
C40_Witness ==
    /\ call.op = "add_span" /\ call.outcome = "stored"
    /\ Cardinality(DOMAIN Spans.spans) = 3
    /\ AcceptedRoots(Spans) # {}
    /\ AcceptedRoots(Spans) # DOMAIN Spans.spans
    /\ LET spans == get_spans(Spans, NoSpansArgs)
       IN /\ Len(spans) = 3
          /\ Spans.spans[spans[1]].start_time = MaxTime
          /\ Spans.spans[spans[3]].start_time = 0

====
